---- MODULE Spec2Model ----
(***************************************************************************)
(* express-async-super: the handler wrapper (AsyncWrapper), the method-     *)
(* registration patcher (RoutePatcher), the global middleware               *)
(* (GlobalMiddleware) and the facade (AsyncSuperImpl), as a state machine.  *)
(*                                                                          *)
(* Express itself (the layer stack of an application, next(), the response  *)
(* object) is the environment; it is modelled only as far as it drives the  *)
(* code above: a request walks the application's layers in order, next()    *)
(* queues the continuation of that walk, a response is a log of writes.     *)
(*                                                                          *)
(* The specifications share the variables:                                  *)
(*   Spec            configuration, patching and registration of handlers,  *)
(*                   with a request passing the global middleware;          *)
(*   SpecServe       one request served by applications set up beforehand;  *)
(*   SpecConcurrent  several requests served at once;                       *)
(*   SpecMetrics     requests served with performance monitoring on;        *)
(*   SpecMiddleware  one request passing the context middlewares;           *)
(*   SpecErrors      one request whose handler throws a classified error;   *)
(*   SpecConfigure   asyncSuper.global() called repeatedly;                 *)
(*   SpecPatch       patching across resets of the module's patcher;        *)
(*   SpecStatus      the default responder answering one error;             *)
(*   SpecClassify    the classifier called with one error;                  *)
(*   SpecTimeout     one call of withTimeout;                               *)
(*   SpecRetry       one call of retryWithBackoff.                          *)
(***************************************************************************)
EXTENDS Integers, Sequences, FiniteSets, TLC

VARIABLES
    nodeEnv,            \* process.env.NODE_ENV
    wrappers,           \* every AsyncWrapper instance constructed so far (its config)
    implWrapper,        \* AsyncSuperImpl.asyncWrapper: index into wrappers
    currentConfig,      \* AsyncSuperImpl.currentConfig: <<>> (null) or <<config>>
    globalMiddleware,   \* the GlobalMiddleware singleton: <<>> or <<[config, routePatcher]>>
    patchers,           \* every RoutePatcher instance constructed so far
    globalRoutePatcher, \* the RoutePatcher singleton: 0 (null) or an index into patchers
    apps,               \* the Express applications: registration methods, marker, saved originals, layer stack
    patchCalls,         \* per application: patch calls made, those made while it was patched, unpatch called
    req,                \* the requests: request object, response object, pending next() calls, running handlers
    pureIn,             \* argument of the pure function under check
    pureOut,            \* <<>> or <<its result>>
    call                \* the call of an asynchronous utility in progress: the promises,
                        \* timers and jobs it made

vars == <<nodeEnv, wrappers, implWrapper, currentConfig, globalMiddleware, patchers,
          globalRoutePatcher, apps, patchCalls, req, pureIn, pureOut, call>>

regVars == <<wrappers, implWrapper, currentConfig, globalMiddleware, patchers,
             globalRoutePatcher, apps, patchCalls>>

----------------------------------------------------------------------------
(* Bounds *)

MaxRequests == 2
MaxLayers == 2
MaxWrappers == 3
MaxPatchCalls == 2
MaxClears == 1
MaxIds == 2
MaxGlobalCalls == 3
MaxTime == 3
MaxRetries == 2

Requests == 1..MaxRequests
Apps == {"app"}

----------------------------------------------------------------------------
(* Configuration *)

Undefined == "undefined"

\* an options object is a function from the keys it has to their values
NoConfig == [k \in {} |-> 0]

HTTP_METHODS == {"get", "post", "put", "patch", "delete", "head", "options", "all"}
MethodNames == HTTP_METHODS \cup {"use"}

DefaultMethods == {"get", "post", "put", "patch", "delete", "head", "options"}
DefaultMaxErrorHistory == 10
DefaultPerformanceThreshold == 1000

Has(c, k) == k \in DOMAIN c

\* c.k ?? d, for an option that is never set to undefined explicitly
Get(c, k, d) == IF Has(c, k) THEN c[k] ELSE d

\* c.errorHandler ?? d: the key may be present and hold undefined
GetHandler(c, d) ==
    IF Has(c, "errorHandler") /\ c["errorHandler"] # Undefined THEN c["errorHandler"] ELSE d

\* { ...a, ...b }
Merge(a, b) == b @@ a

\* the config an AsyncWrapper keeps: Required<AsyncSuperConfig>
AsyncWrapperConfig(c) ==
    [ errorLogging    |-> Get(c, "errorLogging", TRUE),
      performance     |-> Get(c, "performance", FALSE),
      recovery        |-> Get(c, "recovery", FALSE),
      performanceThreshold |-> Get(c, "performanceThreshold", DefaultPerformanceThreshold),
      maxErrorHistory |-> Get(c, "maxErrorHistory", DefaultMaxErrorHistory),
      correlationId   |-> Get(c, "correlationId", TRUE),
      errorHandler    |-> GetHandler(c, "default") ]

\* the config GlobalMiddleware and RoutePatcher keep: Required<GlobalAsyncSuperConfig>;
\* patchOptions.methods and patchOptions.errorHandlers are the keys methods, errorHandlers
GlobalConfig(c) ==
    ( "errorLogging"    :> Get(c, "errorLogging", TRUE) ) @@
    ( "performance"     :> Get(c, "performance", FALSE) ) @@
    ( "recovery"        :> Get(c, "recovery", FALSE) ) @@
    ( "performanceThreshold" :> Get(c, "performanceThreshold", DefaultPerformanceThreshold) ) @@
    ( "maxErrorHistory" :> Get(c, "maxErrorHistory", DefaultMaxErrorHistory) ) @@
    ( "correlationId"   :> Get(c, "correlationId", TRUE) ) @@
    ( "autoPatch"       :> Get(c, "autoPatch", TRUE) ) @@
    ( "developmentOnly" :> Get(c, "developmentOnly", FALSE) ) @@
    ( "errorHandler"    :> GetHandler(c, Undefined) ) @@
    ( "contextFactory"  :> Get(c, "contextFactory", Undefined) ) @@
    ( "methods"         :> Get(c, "methods", DefaultMethods) ) @@
    ( "errorHandlers"   :> Get(c, "errorHandlers", TRUE) )

\* the options objects the callers of global() and patchExpressApp() pass
ConfigInputs ==
    { NoConfig,
      ( "methods" :> HTTP_METHODS ) @@ ( "developmentOnly" :> TRUE ) }

----------------------------------------------------------------------------
(* The registration side: AsyncSuperImpl, GlobalMiddleware, RoutePatcher.   *)
(* Its operations are functions of the record G of the registration state.  *)

RegState ==
    [ wrappers |-> wrappers, implWrapper |-> implWrapper, currentConfig |-> currentConfig,
      globalMiddleware |-> globalMiddleware, patchers |-> patchers,
      globalRoutePatcher |-> globalRoutePatcher, apps |-> apps, patchCalls |-> patchCalls ]

RegAssign(G) ==
    /\ wrappers' = G.wrappers
    /\ implWrapper' = G.implWrapper
    /\ currentConfig' = G.currentConfig
    /\ globalMiddleware' = G.globalMiddleware
    /\ patchers' = G.patchers
    /\ globalRoutePatcher' = G.globalRoutePatcher
    /\ apps' = G.apps
    /\ patchCalls' = G.patchCalls

\* a fresh express() application: every registration method is its original
\* (a method is the sequence of patchers whose replacement is layered on it)
NewApp ==
    [ methods   |-> [m \in MethodNames |-> << >>],
      enabled   |-> FALSE,          \* _asyncSuperEnabled
      originals |-> << >>,          \* _originalMethods: <<>> or <<saved methods>>
      stack     |-> << >>,          \* the layers registered so far
      extensible |-> TRUE ]         \* Object.isExtensible(app)

\* the metrics store of an AsyncWrapper: a Map from route key to the samples
\* recorded under it, in insertion order of the keys
NoMetrics == [keys |-> << >>, samples |-> << >>]

\* the fields of a new AsyncWrapper(c); clears counts its clearPerformanceMetrics calls
NewWrapper(c) ==
    [config |-> AsyncWrapperConfig(c), performanceMetrics |-> NoMetrics, clears |-> 0]

\* the module is loaded: asyncSuperInstance = new AsyncSuperImpl()
Constructed ==
    [ wrappers |-> << NewWrapper(NoConfig) >>,
      implWrapper |-> 1,
      currentConfig |-> << >>,
      globalMiddleware |-> << >>,
      patchers |-> << >>,
      globalRoutePatcher |-> 0,
      apps |-> [a \in Apps |-> NewApp],
      patchCalls |-> [a \in Apps |-> [calls |-> 0, repeated |-> 0, unpatched |-> FALSE]] ]

\* new AsyncWrapper(c)
NewAsyncWrapper(G, c) ==
    [G EXCEPT !.wrappers = Append(@, NewWrapper(c))]

\* new RoutePatcher(c)
NewRoutePatcher(G, c) ==
    LET cfg == GlobalConfig(c)
        G1  == NewAsyncWrapper(G, cfg)
    IN  [G1 EXCEPT !.patchers = Append(@, [ config |-> cfg,
                                            asyncWrapper |-> Len(G1.wrappers),
                                            patchedApps |-> {} ])]

\* RoutePatcher.updateConfig(newConfig) of patcher p
RoutePatcherUpdateConfig(G, p, newConfig) ==
    LET cfg == Merge(G.patchers[p].config, newConfig)
        G1  == NewAsyncWrapper(G, cfg)
    IN  [G1 EXCEPT !.patchers[p].config = cfg,
                   !.patchers[p].asyncWrapper = Len(G1.wrappers)]

\* getGlobalRoutePatcher(config?): optc is <<>> or <<config>>
getGlobalRoutePatcher(G, optc) ==
    IF G.globalRoutePatcher = 0
    THEN LET G1 == NewRoutePatcher(G, IF optc = << >> THEN NoConfig ELSE optc[1])
         IN  [G1 EXCEPT !.globalRoutePatcher = Len(G1.patchers)]
    ELSE IF optc # << >>
         THEN RoutePatcherUpdateConfig(G, G.globalRoutePatcher, optc[1])
         ELSE G

\* new GlobalMiddleware(c)
NewGlobalMiddleware(G, c) ==
    LET cfg == GlobalConfig(c)
        G1  == getGlobalRoutePatcher(G, <<cfg>>)
    IN  [G1 EXCEPT !.globalMiddleware =
                        << [config |-> cfg, routePatcher |-> G1.globalRoutePatcher] >>]

\* GlobalMiddleware.updateConfig(newConfig)
GlobalMiddlewareUpdateConfig(G, newConfig) ==
    LET gm  == G.globalMiddleware[1]
        cfg == Merge(gm.config, newConfig)
        G1  == [G EXCEPT !.globalMiddleware = << [gm EXCEPT !.config = cfg] >>]
    IN  RoutePatcherUpdateConfig(G1, gm.routePatcher, cfg)

\* createGlobalMiddleware(config?)
createGlobalMiddleware(G, optc) ==
    IF G.globalMiddleware = << >>
    THEN NewGlobalMiddleware(G, IF optc = << >> THEN NoConfig ELSE optc[1])
    ELSE IF optc # << >>
         THEN GlobalMiddlewareUpdateConfig(G, optc[1])
         ELSE G

\* AsyncSuperImpl.global(config)
AsyncSuperGlobal(G, c) ==
    LET G1 == NewAsyncWrapper([G EXCEPT !.currentConfig = <<c>>], c)
        G2 == [G1 EXCEPT !.implWrapper = Len(G1.wrappers)]
    IN  createGlobalMiddleware(G2, <<c>>)

\* AsyncSuperImpl.getConfig(): a copy of the last config given to global(), or null (<< >>)
AsyncSuperGetConfig(G) == G.currentConfig

\* the methods patchApp replaces under config cfg: patchHttpMethods, patchErrorHandlers
\* (patchOptions.methods is taken as a set: a name is listed once)
MethodsToPatch(cfg) ==
    (cfg["methods"] \cap HTTP_METHODS) \cup (IF cfg["errorHandlers"] THEN {"use"} ELSE {})

\* RoutePatcher.patchMethod and patchErrorHandlers on the methods S of an application:
\* save the current function, put the patcher's replacement on top of it
patchMethod(app, p, S) ==
    [app EXCEPT !.originals = << [m \in S |-> app.methods[m]] >>,
                !.methods = [m \in MethodNames |->
                                IF m \in S THEN Append(app.methods[m], p) ELSE app.methods[m]]]

\* patchApp without its look at patchedApps: an application is patched again
patchApp_NoGuard(G, p, a, env) ==
    IF G.patchers[p].config["developmentOnly"] /\ env = "production" THEN G
    ELSE LET marked == [G.apps[a] EXCEPT !.enabled = TRUE]
         IN  [G EXCEPT !.apps[a] = patchMethod(marked, p, MethodsToPatch(G.patchers[p].config)),
                       !.patchers[p].patchedApps = @ \cup {a}]

\* RoutePatcher.patchApp(app) of patcher p
patchApp(G, p, a, env) ==
    IF a \in G.patchers[p].patchedApps THEN G
    ELSE IF G.patchers[p].config["developmentOnly"] /\ env = "production" THEN G
    ELSE LET marked == [G.apps[a] EXCEPT !.enabled = TRUE]
         IN  [G EXCEPT !.apps[a] = patchMethod(marked, p, MethodsToPatch(G.patchers[p].config)),
                       !.patchers[p].patchedApps = @ \cup {a}]

\* unpatchApp that clears the marker and forgets the saved functions without
\* putting them back
unpatchApp_MarkerOnly(G, p, a) ==
    IF a \notin G.patchers[p].patchedApps THEN G
    ELSE [G EXCEPT !.apps[a] = [G.apps[a] EXCEPT !.enabled = FALSE, !.originals = << >>],
                   !.patchers[p].patchedApps = @ \ {a}]

\* RoutePatcher.unpatchApp(app) of patcher p
unpatchApp(G, p, a) ==
    IF a \notin G.patchers[p].patchedApps THEN G
    ELSE LET app == G.apps[a]
             restored == [m \in MethodNames |->
                             IF app.originals # << >> /\ m \in DOMAIN app.originals[1]
                             THEN app.originals[1][m] ELSE app.methods[m]]
         IN  [G EXCEPT !.apps[a] = [app EXCEPT !.methods = restored,
                                               !.enabled = FALSE,
                                               !.originals = << >>],
                       !.patchers[p].patchedApps = @ \ {a}]

\* RoutePatcher.isPatched(app) of patcher p
isPatched(G, p, a) == a \in G.patchers[p].patchedApps

\* isAppPatched(app)
isAppPatched(G, a) == G.apps[a].enabled

\* patchExpressApp(app, config?)
patchExpressApp(G, a, optc, env) ==
    LET G1 == getGlobalRoutePatcher(G, optc)
        G2 == patchApp(G1, G1.globalRoutePatcher, a, env)
    IN  [G2 EXCEPT !.patchCalls[a] =
            [@ EXCEPT !.calls = @ + 1,
                      !.repeated = @ + (IF isPatched(G1, G1.globalRoutePatcher, a) THEN 1 ELSE 0)]]

\* unpatchExpressApp(app)
unpatchExpressApp(G, a) ==
    LET G1 == getGlobalRoutePatcher(G, << >>)
        G2 == unpatchApp(G1, G1.globalRoutePatcher, a)
    IN  [G2 EXCEPT !.patchCalls[a].unpatched = TRUE]

\* resetGlobalRoutePatcher(): RoutePatcher.reset() clears the patcher's own map of
\* saved functions (which nothing reads) and leaves its patchedApps and the
\* applications as they are; the module then forgets the patcher
resetGlobalRoutePatcher(G) ==
    IF G.globalRoutePatcher # 0 THEN [G EXCEPT !.globalRoutePatcher = 0] ELSE G

----------------------------------------------------------------------------
(* Registration of handlers through the (possibly replaced) methods.        *)
(* A function value is the user's function (its declared parameter count,   *)
(* whether it is an async function) inside the wrappers put around it,      *)
(* outermost first.                                                         *)

Path == [type |-> "string", name |-> "/x", arity |-> 0, async |-> FALSE, shells |-> << >>]

\* the path argument '/slow', '/fast', ...
Route(p) == [Path EXCEPT !.name = p]

Fn(ar, as) == [type |-> "function", name |-> "handler", arity |-> ar, async |-> as, shells |-> << >>]

\* the function requestContextMiddleware() returns: (req, res, next) => { ... }
RequestContextFn ==
    [type |-> "function", name |-> "requestContext", arity |-> 3, async |-> FALSE, shells |-> << >>]

\* the function GlobalMiddleware.create() returns: (req, res, next) => { ... }
GlobalFn == [type |-> "function", name |-> "global", arity |-> 3, async |-> FALSE, shells |-> << >>]

\* AsyncWrapper.wrapRouteHandler(handler) of wrapper w: async (req, res, next) => ...
wrapRouteHandler(w, f, mark) ==
    [f EXCEPT !.shells = << [type |-> "route", w |-> w, marked |-> mark] >> \o @]

\* AsyncWrapper.wrapErrorHandler(handler) of wrapper w: async (error, req, res, next) => ...
wrapErrorHandler(w, f, mark) ==
    [f EXCEPT !.shells = << [type |-> "error", w |-> w, marked |-> mark] >> \o @]

\* the safeHandler of RoutePatcher.wrapPotentialAsyncHandler: async (req, res, next) => ...
safeHandler(f) ==
    [f EXCEPT !.shells = << [type |-> "safe", w |-> 0, marked |-> FALSE] >> \o @]

\* fn.length
FnLength(f) ==
    IF f.shells = << >> THEN f.arity
    ELSE IF Head(f.shells).type = "error" THEN 4 ELSE 3

\* utils isAsyncFunction(fn): every wrapper is an async arrow function
isAsyncFunction(f) == IF f.shells = << >> THEN f.async ELSE TRUE

\* fn._asyncSuperWrapped
AsyncSuperWrapped(f) == f.shells # << >> /\ Head(f.shells).marked

\* RoutePatcher.processMethodArgs of patcher p (wrapAsyncHandler, wrapPotentialAsyncHandler)
processMethodArgs(G, p, args) ==
    [i \in DOMAIN args |->
        IF args[i].type # "function" THEN args[i]
        ELSE IF isAsyncFunction(args[i])
             THEN wrapRouteHandler(G.patchers[p].asyncWrapper, args[i], TRUE)
             ELSE wrapRouteHandler(G.patchers[p].asyncWrapper, safeHandler(args[i]), TRUE)]

\* the args.map of patchedUse in RoutePatcher.patchErrorHandlers, with RoutePatcher.wrapErrorHandler
patchedUse(G, p, args) ==
    [i \in DOMAIN args |->
        IF args[i].type = "function" /\ FnLength(args[i]) = 4
        THEN IF AsyncSuperWrapped(args[i]) THEN args[i]
             ELSE wrapErrorHandler(G.patchers[p].asyncWrapper, args[i], TRUE)
        ELSE args[i]]

\* Express's own registration function: one layer per function argument, in order
ExpressRegister(stack, m, args) ==
    LET fnIdx == {i \in DOMAIN args : args[i].type = "function"}
        RECURSIVE Add(_, _)
        Add(st, i) ==
            IF i > Len(args) THEN st
            ELSE Add(IF i \in fnIdx
                     THEN Append(st, [ via |-> m, fn |-> args[i], argIndex |-> i,
                                       path |-> args[1].type = "string",
                                       route |-> IF args[1].type = "string" THEN args[1].name ELSE "" ])
                     ELSE st, i + 1)
    IN  Add(stack, 1)

\* app[m](...args): the replacements layered on the method, outermost first, then Express
RECURSIVE CallMethod(_, _, _, _, _)
CallMethod(G, a, m, layers, args) ==
    IF layers = << >>
    THEN [G EXCEPT !.apps[a].stack = ExpressRegister(@, m, args)]
    ELSE LET p == layers[Len(layers)]
         IN  CallMethod(G, a, m, SubSeq(layers, 1, Len(layers) - 1),
                        IF m = "use" THEN patchedUse(G, p, args)
                                     ELSE processMethodArgs(G, p, args))

AppCall(G, a, m, args) == CallMethod(G, a, m, G.apps[a].methods[m], args)

\* the number of layers a call adds
FnCount(args) == Cardinality({i \in DOMAIN args : args[i].type = "function"})

\* asyncSuper.wrap(handler), asyncSuper.wrapError(handler)
AsyncSuperWrap(G, f) == wrapRouteHandler(G.implWrapper, f, FALSE)
AsyncSuperWrapError(G, f) == wrapErrorHandler(G.implWrapper, f, FALSE)

----------------------------------------------------------------------------
(* Errors and their classification (AsyncWrapper's private classifier).     *)
(* A thrown value is an Error (with message and name), or a value that is   *)
(* no Error: null, a string.  msg and nm are the sets of the classifier's   *)
(* keywords that occur in the lower-cased message and name.                 *)

Num(n) == << [t |-> "number", n |-> n] >>
Str(n) == << [t |-> "string", n |-> n] >>

ErrorValue(text, msg, nm, sc, st) ==
    [kind |-> "Error", text |-> text, msg |-> msg, nm |-> nm, statusCode |-> sc, status |-> st]

PlainError == ErrorValue("User not found", {}, {}, << >>, << >>)
NullValue == [kind |-> "null", text |-> "", msg |-> {}, nm |-> {}, statusCode |-> << >>, status |-> << >>]

\* the TypeError of reading .name of null, or .toLowerCase() of an undefined message
TypeErrorValue == ErrorValue("Cannot read properties", {}, {}, << >>, << >>)

\* what handlers throw while serving
ThrowInputs == {PlainError, NullValue}

Categories == {"database", "network", "validation", "authentication", "authorization",
               "business_logic", "system", "unknown"}

\* AsyncWrapper.categorizeError(error), for an error with message and name
categorizeError(v) ==
    IF "connect" \in v.msg \/ "timeout" \in v.msg \/ "network" \in v.nm THEN "network"
    ELSE IF "database" \in v.msg \/ "sql" \in v.msg \/ "sequelize" \in v.nm THEN "database"
    ELSE IF "validation" \in v.msg \/ "validation" \in v.nm THEN "validation"
    ELSE IF "unauthorized" \in v.msg \/ "forbidden" \in v.msg \/ "auth" \in v.nm THEN "authentication"
    ELSE IF "system" \in v.nm \/ "enoent" \in v.msg \/ "eacces" \in v.msg THEN "system"
    ELSE "unknown"

\* AsyncWrapper.isRetryableError(error): 'timeout' and 'connection' in the message
\* make the category network before the database test is reached
isRetryableError(v) ==
    \/ categorizeError(v) = "network"
    \/ categorizeError(v) = "database" /\ v.msg \cap {"timeout", "connection", "temporary"} # {}

----------------------------------------------------------------------------
(* The exported classifier (utils categorizeError, isRetryableError).  It    *)
(* reads more of the error than the wrapper's private one: code, statusCode, *)
(* status and the stack.  A string code is its first character and the rest; *)
(* stack is the set of the classifier's keywords that occur in the           *)
(* lower-cased stack (empty when the error has none).                        *)

CodeStr(first, rest) == << [t |-> "string", first |-> first, rest |-> rest] >>

ClassifiedError(msg, nm, code, sc, st, stack) ==
    [kind |-> "Error", text |-> "", msg |-> msg, nm |-> nm, statusCode |-> sc, status |-> st,
     code |-> code, stack |-> stack]

\* what a call gives: a returned value, or the TypeError it raised
Returns(x) == [result |-> "return", value |-> x]
RaisesTypeError == [result |-> "throw", value |-> "TypeError"]

\* the indicator groups, the tests of each in the order of the source
NetworkIndicators(v) ==
    \/ "connect" \in v.msg \/ "timeout" \in v.msg \/ "network" \in v.msg \/ "fetch" \in v.msg
    \/ "network" \in v.nm
    \/ v.code = CodeStr("E", "CONNREFUSED") \/ v.code = CodeStr("E", "NOTFOUND")

DatabaseIndicators(v) ==
    \/ "database" \in v.msg \/ "sql" \in v.msg \/ "connection" \in v.msg
    \/ "sequelize" \in v.nm \/ "mongo" \in v.nm \/ "redis" \in v.nm
    \/ "database" \in v.stack \/ "mongoose" \in v.stack

ValidationIndicators(v) ==
    \/ "validation" \in v.msg \/ "invalid" \in v.msg \/ "required" \in v.msg
    \/ "validation" \in v.nm \/ "joi" \in v.nm \/ "yup" \in v.nm

\* authentication that also takes error.status for the HTTP status
AuthenticationIndicators_ReadsStatus(v) ==
    \/ "unauthorized" \in v.msg \/ "authentication" \in v.msg \/ "login" \in v.msg
    \/ "token" \in v.msg
    \/ "auth" \in v.nm
    \/ v.statusCode = Num(401) \/ v.status = Num(401)

AuthenticationIndicators(v) ==
    \/ "unauthorized" \in v.msg \/ "authentication" \in v.msg \/ "login" \in v.msg
    \/ "token" \in v.msg
    \/ "auth" \in v.nm
    \/ v.statusCode = Num(401)

AuthorizationIndicators(v) ==
    \/ "forbidden" \in v.msg \/ "permission" \in v.msg \/ "access denied" \in v.msg
    \/ v.statusCode = Num(403)

\* the tests of the system group that come before the one on the code
SystemIndicators(v) ==
    \/ "system" \in v.nm
    \/ "enoent" \in v.msg \/ "eacces" \in v.msg \/ "file system" \in v.msg

\* code?.startsWith('E'): undefined for an error without code, a call of the string's
\* method for a string, and a TypeError for a code that has no such method
codeStartsWithE(code) ==
    IF code = << >> THEN Returns(FALSE)
    ELSE IF code[1].t = "string" THEN Returns(code[1].first = "E")
    ELSE RaisesTypeError

\* utils categorizeError(error)
utilsCategorizeError(v) ==
    IF NetworkIndicators(v) THEN Returns("network")
    ELSE IF DatabaseIndicators(v) THEN Returns("database")
    ELSE IF ValidationIndicators(v) THEN Returns("validation")
    ELSE IF AuthenticationIndicators(v) THEN Returns("authentication")
    ELSE IF AuthorizationIndicators(v) THEN Returns("authorization")
    ELSE IF SystemIndicators(v) THEN Returns("system")
    ELSE IF codeStartsWithE(v.code).result = "throw" THEN RaisesTypeError
    ELSE IF codeStartsWithE(v.code).value THEN Returns("system")
    ELSE Returns("unknown")

\* statusCode || status
StatusCodeOrStatus(v) ==
    IF v.statusCode # << >> /\ v.statusCode[1].n # 0 THEN v.statusCode ELSE v.status

\* utils isRetryableError(error)
utilsIsRetryableError(v) ==
    LET c == utilsCategorizeError(v)
        category == c.value
        statusCode == StatusCodeOrStatus(v)
    IN  IF c.result = "throw" THEN RaisesTypeError
        ELSE IF category = "network" THEN Returns(TRUE)
        ELSE IF category = "database" /\
                   ( \/ "timeout" \in v.msg \/ "connection" \in v.msg \/ "temporary" \in v.msg
                     \/ v.code = CodeStr("E", "CONNRESET") \/ v.code = CodeStr("E", "TIMEDOUT") )
             THEN Returns(TRUE)
        ELSE IF category = "system" THEN Returns(FALSE)
        ELSE IF category \in {"validation", "authentication", "authorization"} THEN Returns(FALSE)
        ELSE IF statusCode # << >> /\ statusCode[1].n # 0
             THEN Returns(statusCode[1].n >= 500 /\ statusCode[1].n < 600)
        ELSE Returns(FALSE)

\* AsyncWrapper.generateRecoverySuggestions(error)
generateRecoverySuggestions(category, retryable) ==
    CASE category = "network" ->
            << "Check network connectivity", "Verify external service endpoints" >> \o
            (IF retryable THEN << "Consider implementing retry logic with exponential backoff" >>
                          ELSE << >>)
      [] category = "database" ->
            << "Check database connection", "Verify database credentials",
               "Check if database schema matches expectations" >>
      [] category = "validation" ->
            << "Verify input data format", "Check required fields are provided",
               "Validate data types and constraints" >>
      [] category = "authentication" ->
            << "Check authentication credentials", "Verify user permissions",
               "Check if session is still valid" >>
      [] category = "system" ->
            << "Check file system permissions", "Verify file paths exist",
               "Check available disk space" >>
      [] OTHER ->
            << "Check error details for specific guidance",
               "Review application logs for more context" >>

\* an error object in flight: the thrown value v, the request r whose handling
\* created it, and the fields an enhancement put on it (an absent field is << >>)
RawError(v, r) ==
    [ v |-> v, r |-> r, enhanced |-> FALSE, correlationId |-> << >>, category |-> "",
      timestamp |-> << >>, routePath |-> << >>, method |-> << >>, duration |-> << >>,
      retryable |-> << >>, suggestions |-> << >> ]

\* error.name and error.message can be read and lower-cased
HasNameAndMessage(e) == e.v.kind = "Error"

\* AsyncWrapper.createEnhancedError(error, req, context, startTime), context given;
\* the duration is what the clock measured, which the model leaves open
createEnhancedError(e, rq, ctx) ==
    [e EXCEPT !.enhanced = TRUE,
              !.timestamp = << "now" >>,
              !.correlationId = ctx.correlationId,
              !.category = categorizeError(e.v),
              !.retryable = << isRetryableError(e.v) >>,
              !.routePath = << rq.path >>,
              !.method = << rq.method >>,
              !.duration = << "elapsed" >>]

\* utils createEnhancedError(error, req, {timestamp, correlationId})
utilsCreateEnhancedError(e, rq, cid) ==
    [e EXCEPT !.enhanced = TRUE,
              !.timestamp = << "now" >>,
              !.correlationId = cid,
              !.routePath = << rq.path >>,
              !.method = << rq.method >>]

\* getStatusCodeFromError that looks at status before statusCode
getStatusCodeFromError_StatusFirst(statusCode, status, category) ==
    IF status # << >> /\ status[1].t = "number" THEN status[1].n
    ELSE IF statusCode # << >> /\ statusCode[1].t = "number" THEN statusCode[1].n
    ELSE CASE category = "validation" -> 400
           [] category = "authentication" -> 401
           [] category = "authorization" -> 403
           [] OTHER -> 500

\* AsyncWrapper.getStatusCodeFromError(error)
getStatusCodeFromError(statusCode, status, category) ==
    IF statusCode # << >> /\ statusCode[1].t = "number" THEN statusCode[1].n
    ELSE IF status # << >> /\ status[1].t = "number" THEN status[1].n
    ELSE CASE category = "validation" -> 400
           [] category = "authentication" -> 401
           [] category = "authorization" -> 403
           [] category \in {"database", "network", "system"} -> 500
           [] OTHER -> 500

\* (a member of the JSON body that is undefined is left out of it: << >>)

\* createErrorResponse that includes the details and the stack whatever the environment
createErrorResponse_AlwaysDetails(e) ==
    [ message       |-> e.v.text,
      correlationId |-> e.correlationId,
      timestamp     |-> e.timestamp,
      category      |-> e.category,
      details       |-> << [ route |-> e.routePath, method |-> e.method,
                             duration |-> e.duration,
                             suggestions |-> e.suggestions,
                             retryable |-> e.retryable ] >>,
      stack         |-> << "stack" >> ]

\* AsyncWrapper.createErrorResponse(error): the body's error object
createErrorResponse(e) ==
    [ message       |-> e.v.text,
      correlationId |-> e.correlationId,
      timestamp     |-> e.timestamp,
      category      |-> e.category,
      details       |-> IF nodeEnv # "production"
                        THEN << [ route |-> e.routePath, method |-> e.method,
                                  duration |-> e.duration,
                                  suggestions |-> e.suggestions,
                                  retryable |-> e.retryable ] >>
                        ELSE << >>,
      stack         |-> IF nodeEnv # "production" THEN << "stack" >> ELSE << >> ]

----------------------------------------------------------------------------
(* The request side: request object, context, response.                     *)

GenId(r, n) == << "async", r, n >>       \* a value of generateCorrelationId()
HeaderId(r) == << "header", r >>         \* the X-Correlation-ID header of request r
NoCorrelation == << "no-correlation" >>

NewRequest ==
    [ open          |-> FALSE,      \* the request has arrived
      app           |-> "",         \* req.app
      method        |-> "",         \* req.method
      path          |-> "",         \* req.path
      header        |-> << >>,      \* req.get('X-Correlation-ID')
      correlationId |-> << >>,      \* req.correlationId
      asyncContext  |-> << >>,      \* req.asyncContext
      idGen         |-> 0,          \* correlation ids generated for this request
      cleanup       |-> FALSE,      \* the cleanup listener is on res 'finish'/'close'
      monitored     |-> FALSE,      \* the slow-request listener is on res 'finish'
      log           |-> << >>,      \* the writes made to the response; headersSent iff non-empty
      finished      |-> FALSE,      \* 'finish' was emitted
      nexts         |-> << >>,      \* next() calls Express has not continued yet
      running       |-> {},         \* handler invocations that have not settled
      rejected      |-> {},         \* layers whose function returned a promise that rejected
      logged        |-> << >> ]     \* the messages config.logger was called with while serving it

\* a fresh context object; lastLimit notes the maxErrorHistory the latest push applied
NewContext(cid) ==
    [correlationId |-> cid, activeOperations |-> 0, errorHistory |-> << >>, lastLimit |-> << >>]

headersSent(rq) == rq.log # << >>

Resolved == [result |-> "resolve", err |-> << >>]
Thrown(e) == [result |-> "throw", err |-> << e >>]

\* next() / next(err) called from the function of layer j
CallNext(rq, j, opterr) == [rq EXCEPT !.nexts = Append(@, [from |-> j + 1, err |-> opterr])]

\* a value that next(value) takes for "no error"
Falsy(e) == e.v.kind = "null"

ResWrite(rq, by, status, body) ==
    [rq EXCEPT !.log = Append(@, [by |-> by, status |-> status, body |-> body])]

OkBody ==
    [ message |-> "ok", correlationId |-> << >>, timestamp |-> << >>, category |-> "",
      details |-> << >>, stack |-> << >> ]

\* AsyncWrapper.getOrCreateContext(req) under the wrapper's config
getOrCreateContext(cfg, rq, r) ==
    IF rq.asyncContext # << >> THEN rq
    ELSE LET generate == cfg.correlationId /\ rq.correlationId = << >>
             cid == IF ~cfg.correlationId THEN NoCorrelation
                    ELSE IF rq.correlationId # << >> THEN rq.correlationId[1]
                    ELSE GenId(r, rq.idGen + 1)
         IN  [rq EXCEPT !.asyncContext = << NewContext(cid) >>,
                        !.correlationId = << cid >>,
                        !.idGen = IF generate THEN @ + 1 ELSE @]

\* createRequestContext(req) of utils: a new context with a generated correlation id
createRequestContext(rq, r) == NewContext(GenId(r, rq.idGen + 1))

\* the contextFactory options: none, (req) => ({}), (req) => { throw ... }
ContextFactories == {Undefined, "factory", "factory-throws"}

\* GlobalMiddleware.initializeRequestContext(req) raises: the contextFactory is called
\* only for a request without context
initializeRequestContextThrows(cfg, rq) ==
    rq.asyncContext = << >> /\ cfg["contextFactory"] = "factory-throws"

\* GlobalMiddleware.initializeRequestContext(req), where it does not raise; the context
\* built around what the contextFactory (req) => ({}) returns is that of
\* createRequestContext but for its metadata
initializeRequestContext(cfg, rq, r) ==
    IF rq.asyncContext # << >> THEN rq
    ELSE LET generated == createRequestContext(rq, r).correlationId
             cid == IF cfg["correlationId"] /\ rq.header # << >> THEN rq.header[1] ELSE generated
         IN  [rq EXCEPT !.asyncContext = << NewContext(cid) >>,
                        !.correlationId = IF cfg["correlationId"] THEN << cid >> ELSE @,
                        !.idGen = @ + 1]

\* the function requestContextMiddleware() returns, up to its call of next()
requestContextMiddleware(rq, r) ==
    IF rq.asyncContext # << >> THEN rq
    ELSE [rq EXCEPT !.asyncContext = << createRequestContext(rq, r) >>, !.idGen = @ + 1]

\* GlobalMiddleware.setupResponseCleanup(req, res)
setupResponseCleanup(rq) == [rq EXCEPT !.cleanup = TRUE]

\* GlobalMiddleware.setupPerformanceMonitoring(req, res)
setupPerformanceMonitoring(rq) == [rq EXCEPT !.monitored = TRUE]

\* context.errorHistory.push(e); if (length > maxErrorHistory) shift()
pushErrorHistory(ctx, e, max) ==
    LET h == Append(ctx.errorHistory, e)
    IN  [ctx EXCEPT !.errorHistory = IF Len(h) > max THEN Tail(h) ELSE h,
                    !.lastLimit = << max >>]

\* context.activeOperations = Math.max(0, context.activeOperations - 1)
decrementOperations(ctx) ==
    [ctx EXCEPT !.activeOperations = IF @ - 1 > 0 THEN @ - 1 ELSE 0]

\* defaultErrorHandler without its look at res.headersSent
defaultErrorHandler_NoSentCheck(rq, e, j) ==
    ResWrite(rq, "wrapper",
             getStatusCodeFromError(e.v.statusCode, e.v.status, e.category),
             createErrorResponse(e))

\* AsyncWrapper.defaultErrorHandler(error, req, res, next), called for layer j
defaultErrorHandler(rq, e, j) ==
    IF headersSent(rq) THEN CallNext(rq, j, << e >>)
    ELSE ResWrite(rq, "wrapper",
                  getStatusCodeFromError(e.v.statusCode, e.v.status, e.category),
                  createErrorResponse(e))

\* config.logger(message, level, context), by the start of its message
logger(rq, message) == [rq EXCEPT !.logged = Append(@, message)]

\* AsyncWrapper.logError(error, prefix), error an object
logError(rq, prefix) == logger(rq, prefix)

\* the user-supplied error handlers: one passes the error on with next(error), one
\* throws an Error, one throws null (or rejects with it)
CustomHandlers == {"custom-next", "custom-throws", "custom-throws-null"}

\* AsyncWrapper.handleAsyncError(error, req, res, next, context, startTime) for layer j:
\* the new request record and how the wrapper's promise settles
handleAsyncError(cfg, rq, e, j, r) ==
    IF ~HasNameAndMessage(e)
    THEN [rq |-> rq, out |-> Thrown(RawError(TypeErrorValue, r))]
    ELSE LET ctx == rq.asyncContext[1]
             e1  == createEnhancedError(e, rq, ctx)
             rq1 == [rq EXCEPT !.asyncContext =
                        << decrementOperations(pushErrorHistory(ctx, e1, cfg.maxErrorHistory)) >>]
             rq2 == IF cfg.errorLogging THEN logError(rq1, "Async Error") ELSE rq1
             \* the error object in the history is the one the suggestions are put on
             ee  == IF cfg.recovery
                    THEN [e1 EXCEPT !.suggestions =
                            << generateRecoverySuggestions(e1.category, e1.retryable[1]) >>]
                    ELSE e1
             rq3 == IF rq2.asyncContext[1].errorHistory = << >> THEN rq2
                    ELSE [rq2 EXCEPT !.asyncContext[1].errorHistory =
                                        [@ EXCEPT ![Len(@)] = ee]]
         IN  CASE cfg.errorHandler = "default" ->
                    [rq |-> defaultErrorHandler(rq3, ee, j), out |-> Resolved]
               [] cfg.errorHandler = "custom-next" ->
                    [rq |-> CallNext(rq3, j, << ee >>), out |-> Resolved]
               \* the handler throws an Error: catch, logError(handlerError), next(enhancedError)
               [] cfg.errorHandler = "custom-throws" ->
                    [rq |-> CallNext(logError(rq3, "Error handler failed"), j, << ee >>),
                     out |-> Resolved]
               \* the handler throws null: logError evaluates 'correlationId' in null
               [] cfg.errorHandler = "custom-throws-null" ->
                    [rq |-> rq3, out |-> Thrown(RawError(TypeErrorValue, r))]

\* a string as the sequence of its words: 'GET /slow' is <<"GET", "/slow">>, '/slow'
\* is <<"/slow">>, the empty string is << >>
RouteKey(method, path) == << method, path >>

\* AsyncWrapper.startPerformanceMonitoring(req, startTime) of wrapper w for request r:
\* the sample the wrapper holds while the handler runs.  req notes the request it
\* measures and clearsAtStart the clears of the store that came before it.
startPerformanceMonitoring(w, rq, r) ==
    [ route |-> rq.path, method |-> rq.method, finished |-> FALSE,
      duration |-> 0, isSlowOperation |-> FALSE, req |-> r, clearsAtStart |-> w.clears ]

\* Map.get(key) || []
MetricsGet(store, key) ==
    LET at == {k \in DOMAIN store.keys : store.keys[k] = key}
    IN  IF at = {} THEN << >> ELSE store.samples[CHOOSE k \in at : TRUE]

\* Map.has(key) ? push : set(key, []) and push
MetricsPush(store, key, m) ==
    LET at == {k \in DOMAIN store.keys : store.keys[k] = key}
    IN  IF at = {}
        THEN [keys |-> Append(store.keys, key), samples |-> Append(store.samples, << m >>)]
        ELSE [store EXCEPT !.samples[CHOOSE k \in at : TRUE] = Append(@, m)]

\* AsyncWrapper.completePerformanceMonitoring(metrics, req) of wrapper w, the clock
\* having measured duration d: the wrapper after it
completePerformanceMonitoring(w, m, rq, d) ==
    LET done == [m EXCEPT !.finished = TRUE, !.duration = d,
                          !.isSlowOperation = d > w.config.performanceThreshold]
    IN  [w EXCEPT !.performanceMetrics = MetricsPush(@, RouteKey(rq.method, rq.path), done)]

\* AsyncWrapper.getPerformanceMetrics(route?) of wrapper w: optRoute is << >> or <<route>>;
\* the empty string is falsy
RECURSIVE Concat(_)
Concat(ss) == IF ss = << >> THEN << >> ELSE Head(ss) \o Concat(Tail(ss))

getPerformanceMetrics(w, optRoute) ==
    IF optRoute # << >> /\ optRoute[1] # << >>
    THEN MetricsGet(w.performanceMetrics, optRoute[1])
    ELSE Concat(w.performanceMetrics.samples)

\* AsyncWrapper.clearPerformanceMetrics() of wrapper w
clearPerformanceMetrics(w) == [w EXCEPT !.performanceMetrics = NoMetrics]

\* asyncSuper.getMetrics(route?), asyncSuper.clearMetrics()
AsyncSuperGetMetrics(G, optRoute) == getPerformanceMetrics(G.wrappers[G.implWrapper], optRoute)
AsyncSuperClearMetrics(G) == [G EXCEPT !.wrappers[G.implWrapper] = clearPerformanceMetrics(@)]

\* the samples the wrappers around a function start when it is called for request r
StartSamples(ws, shells, rq, r) ==
    [k \in DOMAIN shells |->
        IF shells[k].type = "route" /\ ws[shells[k].w].config.performance
        THEN << startPerformanceMonitoring(ws[shells[k].w], rq, r) >>
        ELSE << >>]

\* the part of a wrapper that runs before it calls the function it wraps
EnterShell(ws, sh, rq, errArg, r) ==
    CASE sh.type = "route" ->
            LET rq1 == getOrCreateContext(ws[sh.w].config, rq, r)
            IN  [rq1 EXCEPT !.asyncContext[1].activeOperations = @ + 1]
      [] sh.type = "error" ->
            LET rq1 == getOrCreateContext(ws[sh.w].config, rq, r)
                ctx == rq1.asyncContext[1]
            IN  IF errArg = << >> THEN rq1
                ELSE [rq1 EXCEPT !.asyncContext = << pushErrorHistory(ctx,
                                    utilsCreateEnhancedError(errArg[1], rq1, ctx.correlationId),
                                    ws[sh.w].config.maxErrorHistory) >>]
      [] sh.type = "safe" -> rq

RECURSIVE EnterShells(_, _, _, _, _, _)
EnterShells(ws, shells, k, rq, errArg, r) ==
    IF k > Len(shells) THEN rq
    ELSE EnterShells(ws, shells, k + 1, EnterShell(ws, shells[k], rq, errArg, r), errArg, r)

\* the part of a wrapper that runs when the function it wraps has settled with S.out:
\* S.rq is the request, S.ws the wrappers, m the sample the wrapper started (<< >> if
\* none), d the duration the clock measured
ExitShell(sh, m, d, S, j, r) ==
    CASE sh.type = "safe" ->
            IF S.out.result = "throw"
            THEN [S EXCEPT !.rq = CallNext(S.rq, j, IF Falsy(S.out.err[1]) THEN << >> ELSE S.out.err),
                           !.out = Resolved]
            ELSE S
      [] sh.type = "route" ->
            IF S.out.result = "throw"
            THEN LET H == handleAsyncError(S.ws[sh.w].config, S.rq, S.out.err[1], j, r)
                 IN  [S EXCEPT !.rq = H.rq, !.out = H.out]
            ELSE LET w1  == IF S.ws[sh.w].config.performance /\ m # << >>
                            THEN completePerformanceMonitoring(S.ws[sh.w], m[1], S.rq, d)
                            ELSE S.ws[sh.w]
                     slow == /\ S.ws[sh.w].config.performance /\ m # << >>
                             /\ d > S.ws[sh.w].config.performanceThreshold
                             /\ S.ws[sh.w].config.errorLogging
                     rq1 == IF slow THEN logger(S.rq, "Slow operation detected") ELSE S.rq
                 IN  [S EXCEPT !.ws[sh.w] = w1,
                               !.rq = [rq1 EXCEPT !.asyncContext[1] = decrementOperations(@)],
                               !.out = Resolved]
      [] sh.type = "error" ->
            IF S.out.result = "throw"
            THEN IF ~HasNameAndMessage(S.out.err[1])
                 THEN [S EXCEPT !.out = Thrown(RawError(TypeErrorValue, r))]
                 ELSE [S EXCEPT !.rq = CallNext(logError(S.rq, "Async Error"), j,
                                << createEnhancedError(S.out.err[1], S.rq, S.rq.asyncContext[1]) >>),
                                !.out = Resolved]
            ELSE S

RECURSIVE ExitShells(_, _, _, _, _, _, _)
ExitShells(shells, ms, d, k, S, j, r) ==
    IF k = 0 THEN S
    ELSE ExitShells(shells, ms, d, k - 1, ExitShell(shells[k], ms[k], d, S, j, r), j, r)

\* Express: the first layer at or after position from that takes the call
Matches(layer, isErr) == IF isErr THEN FnLength(layer.fn) = 4 ELSE FnLength(layer.fn) # 4

\* Express: a layer registered with a path serves the requests for that path, one
\* registered by a verb method the requests of that verb
Routed(layer, rq) ==
    /\ layer.route # "" => layer.route = rq.path
    /\ layer.via \in {"use", "all"} \/ (layer.via = "get" /\ rq.method = "GET")

Target(stack, from, isErr, rq) ==
    LET c == {j \in from..Len(stack) : Matches(stack[j], isErr) /\ Routed(stack[j], rq)}
    IN  IF c = {} THEN 0 ELSE CHOOSE j \in c : \A i \in c : j <= i

----------------------------------------------------------------------------
(* Actions of the application code: configuration, patching, registration.  *)

\* asyncSuper.global(c), while fewer than n wrappers exist
GlobalWithin(c, n) ==
    /\ Len(wrappers) + 2 <= n
    /\ RegAssign(AsyncSuperGlobal(RegState, c))
    /\ UNCHANGED <<call, nodeEnv, req, pureIn, pureOut>>

\* asyncSuper.global(c)
Global(c) == GlobalWithin(c, MaxWrappers)

\* app.use(mw), mw a middleware that asyncSuper.global() returned
UseGlobal(a) ==
    /\ globalMiddleware # << >>
    /\ Len(apps[a].stack) < MaxLayers
    /\ RegAssign(AppCall(RegState, a, "use", << GlobalFn >>))
    /\ UNCHANGED <<call, nodeEnv, req, pureIn, pureOut>>

\* the arguments after asyncSuper.wrap / asyncSuper.wrapError was applied to each function
ManualWrap(G, args) ==
    [i \in DOMAIN args |->
        IF args[i].type # "function" THEN args[i]
        ELSE IF args[i].arity = 4 THEN AsyncSuperWrapError(G, args[i])
        ELSE AsyncSuperWrap(G, args[i])]

\* app[m](...args)
Register(a, m, args) ==
    /\ Len(apps[a].stack) + FnCount(args) <= MaxLayers
    /\ RegAssign(AppCall(RegState, a, m, args))
    /\ UNCHANGED <<call, nodeEnv, req, pureIn, pureOut>>

\* patchExpressApp(app, config?)
PatchExpressApp(a, optc) ==
    /\ patchCalls[a].calls < MaxPatchCalls
    /\ (globalRoutePatcher = 0 \/ optc # << >>) => Len(wrappers) < MaxWrappers
    /\ RegAssign(patchExpressApp(RegState, a, optc, nodeEnv))
    /\ UNCHANGED <<call, nodeEnv, req, pureIn, pureOut>>

\* unpatchExpressApp(app)
UnpatchExpressApp(a) ==
    /\ globalRoutePatcher = 0 => Len(wrappers) < MaxWrappers
    /\ RegAssign(unpatchExpressApp(RegState, a))
    /\ UNCHANGED <<call, nodeEnv, req, pureIn, pureOut>>

\* resetGlobalRoutePatcher()
ResetGlobalRoutePatcher ==
    /\ globalRoutePatcher # 0
    /\ RegAssign(resetGlobalRoutePatcher(RegState))
    /\ UNCHANGED <<call, nodeEnv, req, pureIn, pureOut>>

----------------------------------------------------------------------------
(* Actions of a request.                                                    *)

\* a context shared by every request: what keeping the context outside the
\* request object would make of ContextHolder
ContextHolder_Shared(r) == 1

\* the object the context of request r is attached to: the request itself
\* (req.asyncContext = ...)
ContextHolder(r) == r

\* request r as the code handling it sees it
Load(r) == [req[r] EXCEPT !.asyncContext = req[ContextHolder(r)].asyncContext]

\* the requests after the code handling request r left it as rq
Store(r, rq) ==
    [q \in Requests |->
        IF q = r
        THEN IF ContextHolder(r) = r THEN rq ELSE [rq EXCEPT !.asyncContext = req[r].asyncContext]
        ELSE IF q = ContextHolder(r) THEN [req[q] EXCEPT !.asyncContext = rq.asyncContext]
        ELSE req[q]]

\* the paths clients request of application a: those of its routes, '/x' if it has none
RequestPaths(a) ==
    LET routes == {apps[a].stack[j].route : j \in DOMAIN apps[a].stack} \ {""}
    IN  IF routes = {} THEN {Path.name} ELSE routes

\* a GET request for application a arrives, with an X-Correlation-ID header if h;
\* Express starts at the first layer
Arrive(r, h) ==
    /\ ~req[r].open
    /\ \E a \in Apps :
          \E p \in RequestPaths(a) :
              req' = [req EXCEPT ![r] = [NewRequest EXCEPT
                            !.open = TRUE, !.app = a, !.method = "GET", !.path = p,
                            !.header = IF h THEN << HeaderId(r) >> ELSE << >>,
                            !.nexts = << [from |-> 1, err |-> << >>] >>]]
    /\ UNCHANGED <<call, nodeEnv, regVars, pureIn, pureOut>>

\* the layer Express calls next for request r: 0 if the stack is exhausted
NextLayer(r) ==
    LET n == Head(req[r].nexts)
    IN  Target(apps[req[r].app].stack, n.from, n.err # << >>, req[r])

\* RoutePatcher.patchApp(app) raises: its first assignment to a property the
\* application does not have yet, on an application that takes no new properties
patchAppThrows(G, p, a, env) ==
    /\ a \notin G.patchers[p].patchedApps
    /\ ~(G.patchers[p].config["developmentOnly"] /\ env = "production")
    /\ ~G.apps[a].extensible

\* the function GlobalMiddleware.create() returned runs for request r; what it throws,
\* Express catches and hands to next
GlobalMiddlewareRun(r) ==
    /\ req[r].nexts # << >>
    /\ NextLayer(r) # 0
    /\ LET j  == NextLayer(r)
           a  == req[r].app
           gm == globalMiddleware[1]
           G  == RegState
           patch == gm.config["autoPatch"] /\ ~isPatched(G, gm.routePatcher, a)
           patchThrows == patch /\ patchAppThrows(G, gm.routePatcher, a, nodeEnv)
           G1 == IF patch /\ ~patchThrows
                 THEN patchApp(G, gm.routePatcher, a, nodeEnv) ELSE G
           rq == [Load(r) EXCEPT !.nexts = Tail(@)]
           skip == gm.config["developmentOnly"] /\ nodeEnv = "production"
           rq0 == initializeRequestContext(gm.config, rq, r)
           rq1 == IF skip THEN rq
                  ELSE IF initializeRequestContextThrows(gm.config, rq)
                  THEN logger(rq, "Failed to initialize async-super middleware")
                  ELSE setupResponseCleanup(IF gm.config["performance"]
                                            THEN setupPerformanceMonitoring(rq0) ELSE rq0)
       IN  /\ apps[a].stack[j].fn.name = "global"
           /\ RegAssign(G1)
           /\ req' = Store(r, IF patchThrows
                              THEN CallNext(rq, j, << RawError(TypeErrorValue, r) >>)
                              ELSE CallNext(rq1, j, << >>))
    /\ UNCHANGED <<call, nodeEnv, pureIn, pureOut>>

\* the function requestContextMiddleware() returned runs for request r
RequestContextMiddlewareRun(r) ==
    /\ req[r].nexts # << >>
    /\ NextLayer(r) # 0
    /\ LET j  == NextLayer(r)
           rq == [Load(r) EXCEPT !.nexts = Tail(@)]
       IN  /\ apps[req[r].app].stack[j].fn.name = "requestContext"
           /\ req' = Store(r, CallNext(requestContextMiddleware(rq, r), j, << >>))
    /\ UNCHANGED <<call, nodeEnv, regVars, pureIn, pureOut>>

\* asyncSuper.createContext(req) is called for request r, which is being served
CreateContext(r) ==
    /\ req[r].open
    /\ ~req[r].finished
    /\ req[r].idGen < MaxIds
    /\ pureOut' = << createRequestContext(Load(r), r) >>
    /\ req' = Store(r, [Load(r) EXCEPT !.idGen = @ + 1])
    /\ UNCHANGED <<call, nodeEnv, regVars, pureIn>>

\* Express calls the handler of the next layer: the wrappers around it run up to
\* the call of the user's function, which runs up to its first await
\* (calling next() before it, if callsNext)
Invoke(r, callsNext) ==
    /\ req[r].nexts # << >>
    /\ NextLayer(r) # 0
    /\ LET j   == NextLayer(r)
           n   == Head(req[r].nexts)
           fn  == apps[req[r].app].stack[j].fn
           rq  == [Load(r) EXCEPT !.nexts = Tail(@)]
           rq1 == EnterShells(wrappers, fn.shells, 1, rq, n.err, r)
           rq2 == IF callsNext THEN CallNext(rq1, j, << >>) ELSE rq1
       IN  /\ fn.name = "handler"
           /\ callsNext => n.err = << >>
           /\ \A i \in req[r].running : i.layer # j
           /\ req' = Store(r, [rq2 EXCEPT !.running = @ \cup
                    {[layer |-> j, err |-> n.err,
                      samples |-> StartSamples(wrappers, fn.shells, rq, r)]}])
    /\ UNCHANGED <<call, nodeEnv, regVars, pureIn, pureOut>>

\* what the user's function does from its first await to its end
Behaviours == {"respond", "resolve", "pass", "throw", "respondThrow"}

\* the durations the clock measures for a handler: at the default threshold, above it
Durations == {DefaultPerformanceThreshold, DefaultPerformanceThreshold + 1}

\* the request and the wrappers after the user's function of invocation i did b,
\* settling with v if it throws, d after the wrappers started
AfterSettle(r, i, b, v, d) ==
    LET j   == i.layer
        fn  == apps[req[r].app].stack[j].fn
        rq  == [Load(r) EXCEPT !.running = @ \ {i}]
        rq1 == CASE b \in {"respond", "respondThrow"} -> ResWrite(rq, "handler", 200, OkBody)
                 [] b = "pass" -> CallNext(rq, j, i.err)
                 [] OTHER -> rq
        out == IF b \in {"throw", "respondThrow"} THEN Thrown(RawError(v, r)) ELSE Resolved
        S   == ExitShells(fn.shells, i.samples, d, Len(fn.shells),
                          [rq |-> rq1, out |-> out, ws |-> wrappers], j, r)
    IN  IF S.out.result = "resolve" THEN S
        ELSE IF fn.shells = << >> /\ ~fn.async
             \* Express catches what a handler throws synchronously
             THEN [S EXCEPT !.rq = CallNext(S.rq, j, IF Falsy(S.out.err[1]) THEN << >> ELSE S.out.err)]
             \* nobody awaits the promise the function returned
             ELSE [S EXCEPT !.rq = [S.rq EXCEPT !.rejected = @ \cup {j}]]

\* the user's function of invocation i settles, and the wrappers around it finish
Settle(r, i, b, v, d) ==
    /\ i \in req[r].running
    /\ b \in {"respond", "respondThrow"} => ~headersSent(req[r])
    /\ b = "pass" => i.err # << >>
    /\ req' = Store(r, AfterSettle(r, i, b, v, d).rq)
    /\ wrappers' = AfterSettle(r, i, b, v, d).ws
    /\ UNCHANGED <<call, nodeEnv, implWrapper, currentConfig, globalMiddleware, patchers,
                   globalRoutePatcher, apps, patchCalls, pureIn, pureOut>>

\* asyncSuper.clearMetrics()
ClearMetrics ==
    /\ wrappers[implWrapper].clears < MaxClears
    /\ RegAssign([AsyncSuperClearMetrics(RegState)
                    EXCEPT !.wrappers[implWrapper].clears = @ + 1])
    /\ UNCHANGED <<call, nodeEnv, req, pureIn, pureOut>>

\* no layer is left: Express's final handler answers unless a response was sent
FinalHandler(r) ==
    /\ req[r].nexts # << >>
    /\ NextLayer(r) = 0
    /\ LET n  == Head(req[r].nexts)
           rq == [Load(r) EXCEPT !.nexts = Tail(@)]
       IN  req' = Store(r, IF headersSent(rq) THEN rq
                           ELSE ResWrite(rq, "express", IF n.err # << >> THEN 500 ELSE 404, OkBody))
    /\ UNCHANGED <<call, nodeEnv, regVars, pureIn, pureOut>>

\* the 'finish' listener of GlobalMiddleware.setupPerformanceMonitoring, the request
\* having taken duration d
slowRequestListener(cfg, rq, d) ==
    IF rq.monitored /\ d > cfg["performanceThreshold"] THEN logger(rq, "Slow request") ELSE rq

\* the cleanup listener of GlobalMiddleware.setupResponseCleanup
cleanup(cfg, rq) ==
    IF rq.cleanup /\ rq.asyncContext # << >>
    THEN LET rq1 == IF rq.asyncContext[1].activeOperations > 0 /\ cfg["errorLogging"]
                    THEN logger(rq, "Request finished with active async operations") ELSE rq
         IN  [rq1 EXCEPT !.asyncContext[1].errorHistory = << >>]
    ELSE rq

\* the response emits 'finish': the listeners the global middleware put on it run
Finish(r) ==
    /\ headersSent(req[r])
    /\ ~req[r].finished
    /\ LET rq == [Load(r) EXCEPT !.finished = TRUE]
       IN  IF rq.monitored \/ rq.cleanup
           THEN \E d \in IF rq.monitored THEN Durations ELSE {DefaultPerformanceThreshold} :
                   req' = Store(r, cleanup(globalMiddleware[1].config,
                                    slowRequestListener(globalMiddleware[1].config, rq, d)))
           ELSE req' = Store(r, rq)
    /\ UNCHANGED <<call, nodeEnv, regVars, pureIn, pureOut>>

\* the default responder answers the error of pureIn on a fresh response
Respond ==
    /\ pureOut = << >>
    /\ LET e  == [ RawError(ErrorValue(pureIn.text, {}, {}, pureIn.statusCode, pureIn.status), 1)
                     EXCEPT !.enhanced = TRUE, !.timestamp = << "now" >>,
                            !.correlationId = GenId(1, 1), !.category = pureIn.category,
                            !.retryable = << FALSE >> ]
           rq == defaultErrorHandler(NewRequest, e, 1)
       IN  pureOut' = << rq.log[1] >>
    /\ UNCHANGED <<call, nodeEnv, regVars, req, pureIn>>

\* categorizeError(error) of utils is called with the error of pureIn
Categorize ==
    /\ pureOut = << >>
    /\ pureOut' = << [fn |-> "categorizeError", out |-> utilsCategorizeError(pureIn)] >>
    /\ UNCHANGED <<call, nodeEnv, regVars, req, pureIn>>

\* isRetryableError(error) of utils is called with the error of pureIn
IsRetryable ==
    /\ pureOut = << >>
    /\ pureOut' = << [fn |-> "isRetryableError", out |-> utilsIsRetryableError(pureIn)] >>
    /\ UNCHANGED <<call, nodeEnv, regVars, req, pureIn>>

\* the wrapper classifies the error of pureIn while enhancing it
WrapperCategorize ==
    /\ pureOut = << >>
    /\ pureOut' = << [fn |-> "AsyncWrapper.categorizeError", out |-> Returns(categorizeError(pureIn))] >>
    /\ UNCHANGED <<call, nodeEnv, regVars, req, pureIn>>

----------------------------------------------------------------------------
(* The asynchronous utilities.  A promise is its state and the value or     *)
(* reason it settled with; the jobs are the promise reactions the event     *)
(* loop has queued, which it runs before the next timer callback.           *)

\* no utility was called
NoCall == [fn |-> "none"]

Pending == [state |-> "pending", value |-> << >>]
Fulfilled(v) == [state |-> "fulfilled", value |-> << v >>]
Rejected(e) == [state |-> "rejected", value |-> << e >>]

\* the resolve and reject functions of a promise p: a settled promise stays as it is
resolve(p, v) == IF p.state = "pending" THEN Fulfilled(v[1]) ELSE p
reject(p, e) == IF p.state = "pending" THEN Rejected(e[1]) ELSE p

\* the Error the timer callback of withTimeout builds
TimeoutError(timeoutMessage, timeoutMs) ==
    [ kind |-> "Error", message |-> timeoutMessage, code |-> "OPERATION_TIMEOUT",
      timeout |-> timeoutMs ]

\* a clearTimeout that leaves the timer as it is
clearTimeout_Noop(timer) == timer

\* clearTimeout(timeoutHandle): a timer that has fired stays fired
clearTimeout(timer) == IF timer = "armed" THEN "cleared" ELSE timer

\* withTimeout(operation, timeoutMs, timeoutMessage): the executor arms the timer and
\* puts the reactions on the operation, whose first one is queued at once when the
\* operation is settled already
WithTimeout ==
    /\ call = NoCall
    /\ call' = [ fn        |-> "withTimeout",
                 operation |-> pureIn.operation,
                 timeoutMs |-> pureIn.timeoutMs,
                 message   |-> pureIn.timeoutMessage,
                 timer     |-> "armed",
                 now       |-> 0,
                 jobs      |-> IF pureIn.operation.state = "pending" THEN << >> ELSE << "then" >>,
                 derived   |-> "pending",     \* the promise operation.then(...) returned
                 result    |-> Pending,       \* the promise withTimeout returned
                 settles   |-> 0 ]            \* calls of its resolve and reject
    /\ UNCHANGED <<nodeEnv, regVars, req, pureIn, pureOut>>

\* the operation settles while withTimeout waits for it
OperationSettles(p) ==
    /\ call.fn = "withTimeout"
    /\ call.operation.state = "pending"
    /\ call' = [call EXCEPT !.operation = p, !.jobs = Append(@, "then")]
    /\ UNCHANGED <<nodeEnv, regVars, req, pureIn, pureOut>>

\* the event loop runs the next promise reaction: the one given to then(), which a
\* rejected operation skips, or the one given to catch(), which a fulfilled one skips
RunJob ==
    /\ call.fn = "withTimeout"
    /\ call.jobs # << >>
    /\ LET c == [call EXCEPT !.jobs = Tail(@)]
       IN  call' =
             CASE Head(call.jobs) = "then" /\ call.operation.state = "fulfilled" ->
                    [c EXCEPT !.timer = clearTimeout(@),
                              !.result = resolve(@, call.operation.value),
                              !.settles = @ + 1,
                              !.derived = "fulfilled",
                              !.jobs = Append(@, "catch")]
               [] Head(call.jobs) = "then" /\ call.operation.state = "rejected" ->
                    [c EXCEPT !.derived = "rejected", !.jobs = Append(@, "catch")]
               [] Head(call.jobs) = "catch" /\ call.derived = "rejected" ->
                    [c EXCEPT !.timer = clearTimeout(@),
                              !.result = reject(@, call.operation.value),
                              !.settles = @ + 1]
               [] OTHER -> c
    /\ UNCHANGED <<nodeEnv, regVars, req, pureIn, pureOut>>

\* the timer callback runs: no reaction is waiting, and timeoutMs have passed
TimerFires ==
    /\ call.fn = "withTimeout"
    /\ call.timer = "armed"
    /\ call.jobs = << >>
    /\ call.now >= call.timeoutMs
    /\ call' = [call EXCEPT !.timer = "fired",
                            !.result = reject(@, << TimeoutError(call.message, call.timeoutMs) >>),
                            !.settles = @ + 1]
    /\ UNCHANGED <<nodeEnv, regVars, req, pureIn, pureOut>>

\* a millisecond passes
Tick ==
    /\ call.fn = "withTimeout"
    /\ call.jobs = << >>
    /\ call.now < MaxTime
    /\ call' = [call EXCEPT !.now = @ + 1]
    /\ UNCHANGED <<nodeEnv, regVars, req, pureIn, pureOut>>

RECURSIVE Pow(_, _)
\* Math.pow(b, n) for a whole n >= 0
Pow(b, n) == IF n = 0 THEN 1 ELSE b * Pow(b, n - 1)

\* 0.5 + Math.random() * 0.5 in thousandths: Math.random() is in [0, 1)
JitterFactors == {500, 750, 999}

\* the delay computed after the failure of the attempt after this one
backoffDelay_NextAttempt(baseDelay, backoffFactor, attempt, jitter, f) ==
    baseDelay * Pow(backoffFactor, attempt + 1) * (IF jitter THEN f ELSE 1000)

\* the delay retryWithBackoff computes after the failure of attempt, in thousandths of
\* a millisecond, f being the jitter factor drawn
backoffDelay(baseDelay, backoffFactor, attempt, jitter, f) ==
    baseDelay * Pow(backoffFactor, attempt) * (IF jitter THEN f ELSE 1000)

\* retryWithBackoff(operation, maxRetries, baseDelay, backoffFactor, jitter): the loop
\* starts with attempt 0, or ends at once when maxRetries is below 0
RetryWithBackoff ==
    /\ call = NoCall
    /\ call' = [ fn            |-> "retryWithBackoff",
                 maxRetries    |-> pureIn.maxRetries,
                 baseDelay     |-> pureIn.baseDelay,
                 backoffFactor |-> pureIn.backoffFactor,
                 jitter        |-> pureIn.jitter,
                 attempt       |-> 0,
                 at            |-> IF 0 <= pureIn.maxRetries THEN "loop" ELSE "done",
                 outcomes      |-> << >>,       \* what the calls of operation settled with
                 invocations   |-> 0,           \* calls of operation
                 waits         |-> << >>,       \* the delays slept
                 lastError     |-> << >>,
                 result        |-> IF 0 <= pureIn.maxRetries THEN Pending
                                   ELSE Rejected(Undefined) ]
    /\ UNCHANGED <<nodeEnv, regVars, req, pureIn, pureOut>>

\* the loop body begins: operation() is called and awaited
CallOperation ==
    /\ call.fn = "retryWithBackoff"
    /\ call.at = "loop"
    /\ call.attempt <= call.maxRetries
    /\ call' = [call EXCEPT !.at = "await", !.invocations = @ + 1]
    /\ UNCHANGED <<nodeEnv, regVars, req, pureIn, pureOut>>

\* the promise operation() returned settles: with a value, which is returned, or with
\* an error, after which the loop ends (last attempt) or sleeps the delay, f being
\* the jitter factor
OperationResult(ok, f) ==
    /\ call.fn = "retryWithBackoff"
    /\ call.at = "await"
    /\ LET n == call.invocations
           p == IF ok THEN Fulfilled([value |-> n]) ELSE Rejected([error |-> n])
           c == [call EXCEPT !.outcomes = Append(@, p)]
       IN  call' =
             IF ok THEN [c EXCEPT !.at = "done", !.result = resolve(@, p.value)]
             ELSE IF call.attempt = call.maxRetries
                  THEN [c EXCEPT !.lastError = p.value, !.at = "done",
                                 !.result = reject(@, p.value)]
                  ELSE [c EXCEPT !.lastError = p.value, !.at = "sleep",
                                 !.waits = Append(@, backoffDelay(call.baseDelay, call.backoffFactor,
                                                                  call.attempt, call.jitter, f))]
    /\ UNCHANGED <<nodeEnv, regVars, req, pureIn, pureOut>>

\* the timer of sleep(delay) fires: attempt++, and the loop goes on
Wake ==
    /\ call.fn = "retryWithBackoff"
    /\ call.at = "sleep"
    /\ call' = [call EXCEPT !.attempt = @ + 1, !.at = "loop"]
    /\ UNCHANGED <<nodeEnv, regVars, req, pureIn, pureOut>>

----------------------------------------------------------------------------
(* Specifications.                                                          *)

InitRequests == req = [r \in Requests |-> NewRequest]

NoPure == [text |-> "", statusCode |-> << >>, status |-> << >>, category |-> "unknown"]

InitReg(G) ==
    /\ wrappers = G.wrappers
    /\ implWrapper = G.implWrapper
    /\ currentConfig = G.currentConfig
    /\ globalMiddleware = G.globalMiddleware
    /\ patchers = G.patchers
    /\ globalRoutePatcher = G.globalRoutePatcher
    /\ apps = G.apps
    /\ patchCalls = G.patchCalls

\* the calls of the application code
RegInputs ==
    { << "get", << Path, Fn(3, TRUE) >> >>,      \* app.get('/x', async (req, res) => ...)
      << "all", << Path, Fn(3, TRUE) >> >>,      \* app.all('/x', async (req, res) => ...)
      << "use", << Fn(3, TRUE) >> >>,            \* app.use(async (req, res, next) => ...)
      << "use", << Fn(4, TRUE) >> >> }           \* app.use(async (err, req, res, next) => ...)

OptConfigInputs == { << >> } \cup { << c >> : c \in ConfigInputs }

\* Spec: an application is configured, patched and filled with handlers while a
\* request passes the global middleware
Init ==
    /\ nodeEnv \in {"development", "production"}
    /\ InitReg(Constructed)
    /\ InitRequests
    /\ pureIn = NoPure
    /\ pureOut = << >>
    /\ call = NoCall

Next ==
    \/ \E c \in ConfigInputs : Global(c)
    \/ \E a \in Apps : UseGlobal(a)
    \/ \E a \in Apps, i \in RegInputs : Register(a, i[1], i[2])
    \/ \E a \in Apps, optc \in OptConfigInputs : PatchExpressApp(a, optc)
    \/ \E a \in Apps : UnpatchExpressApp(a)
    \/ \E h \in BOOLEAN : Arrive(1, h)
    \/ GlobalMiddlewareRun(1)

Spec == Init /\ [][Next]_vars

\* the applications requests are served by: what these scripts leave

\* patchExpressApp(app); app.get('/x', async h); app.use(async (err, req, res, next) => ...)
SetupPatched ==
    LET G1 == patchExpressApp(Constructed, "app", << >>, "development")
        G2 == AppCall(G1, "app", "get", << Path, Fn(3, TRUE) >>)
    IN  AppCall(G2, "app", "use", << Fn(4, TRUE) >>)

\* patchExpressApp(app, {errorHandler}); app.get('/x', async h); app.use(async e1);
\* patchExpressApp(app, {maxErrorHistory: 1}); app.use(async e2)
SetupReconfigured ==
    LET G1 == patchExpressApp(Constructed, "app", << ("errorHandler" :> "custom-next") >>, "development")
        G2 == AppCall(G1, "app", "get", << Path, Fn(3, TRUE) >>)
        G3 == AppCall(G2, "app", "use", << Fn(4, TRUE) >>)
        G4 == patchExpressApp(G3, "app", << ("maxErrorHistory" :> 1) >>, "development")
    IN  AppCall(G4, "app", "use", << Fn(4, TRUE) >>)

\* app.use(asyncSuper.global()); app.get('/x', asyncSuper.wrap(async h))
SetupGlobal ==
    LET G1 == AsyncSuperGlobal(Constructed, NoConfig)
        G2 == AppCall(G1, "app", "use", << GlobalFn >>)
    IN  AppCall(G2, "app", "get", ManualWrap(G2, << Path, Fn(3, TRUE) >>))

\* patchExpressApp(app); app.get('/x', (req, res, next) => ...)
SetupSync ==
    LET G1 == patchExpressApp(Constructed, "app", << >>, "development")
    IN  AppCall(G1, "app", "get", << Path, Fn(3, FALSE) >>)

\* patchExpressApp(app, {errorHandler: h}); app.get('/x', async h1), h a handler that throws
SetupCustom(h) ==
    LET G1 == patchExpressApp(Constructed, "app", << ("errorHandler" :> h) >>, "development")
    IN  AppCall(G1, "app", "get", << Path, Fn(3, TRUE) >>)

Setups == {SetupPatched, SetupReconfigured, SetupGlobal, SetupSync,
           SetupCustom("custom-throws"), SetupCustom("custom-throws-null")}

\* the applications of S, serving under one of the environments of E
InitSetupIn(E, S) ==
    /\ nodeEnv \in E
    /\ \E G \in S : InitReg(G)
    /\ InitRequests
    /\ pureIn = NoPure
    /\ pureOut = << >>
    /\ call = NoCall

InitSetup(S) == InitSetupIn({"development"}, S)

\* SpecServe: one request is served by each of the applications, in development and in
\* production (none of the scripts sets developmentOnly, so that they leave the same
\* application in either environment)
InitServe == InitSetupIn({"development", "production"}, Setups)

NextServe ==
    \/ \E h \in BOOLEAN : Arrive(1, h)
    \/ GlobalMiddlewareRun(1)
    \/ \E callsNext \in BOOLEAN : Invoke(1, callsNext)
    \/ \E i \in req[1].running, b \in Behaviours, v \in ThrowInputs, d \in Durations :
            Settle(1, i, b, v, d)
    \/ FinalHandler(1)
    \/ Finish(1)

SpecServe == InitServe /\ [][NextServe]_vars

\* SpecConcurrent: several requests are in flight, interleaved at the await points
\* of their handlers, which respond, return without a response, or throw
\* (performance monitoring is off, so that the time a handler took is not looked at)
InitConcurrent == InitSetup({SetupGlobal})

NextConcurrent ==
    \E r \in Requests :
        \/ \E h \in BOOLEAN : Arrive(r, h)
        \/ GlobalMiddlewareRun(r)
        \/ \E callsNext \in BOOLEAN : Invoke(r, callsNext)
        \/ \E i \in req[r].running, b \in {"respond", "resolve", "throw"}, v \in ThrowInputs :
                Settle(r, i, b, v, DefaultPerformanceThreshold)
        \/ FinalHandler(r)
        \/ Finish(r)

SpecConcurrent == InitConcurrent /\ [][NextConcurrent]_vars

\* app.use(asyncSuper.global({performance: true}));
\* app.get('/slow', asyncSuper.wrap(async h)); app.get('/fast', asyncSuper.wrap(async h))
SetupMetricsManual ==
    LET G1 == AsyncSuperGlobal(Constructed, ("performance" :> TRUE))
        G2 == AppCall(G1, "app", "use", << GlobalFn >>)
        G3 == AppCall(G2, "app", "get", ManualWrap(G2, << Route("/slow"), Fn(3, TRUE) >>))
    IN  AppCall(G3, "app", "get", ManualWrap(G3, << Route("/fast"), Fn(3, TRUE) >>))

\* app.use(asyncSuper.global({performance: true})); a first request has passed the
\* middleware, which patched the application; then
\* app.get('/slow', async h); app.get('/fast', async h)
SetupMetricsAuto ==
    LET G1 == AsyncSuperGlobal(Constructed, ("performance" :> TRUE))
        G2 == AppCall(G1, "app", "use", << GlobalFn >>)
        G3 == patchApp(G2, G2.globalMiddleware[1].routePatcher, "app", "development")
        G4 == AppCall(G3, "app", "get", << Route("/slow"), Fn(3, TRUE) >>)
    IN  AppCall(G4, "app", "get", << Route("/fast"), Fn(3, TRUE) >>)

\* SpecMetrics: requests for two routes are served with performance monitoring on,
\* up to the settling of their handlers, while the metrics are cleared
InitMetrics == InitSetup({SetupMetricsManual, SetupMetricsAuto})

NextMetrics ==
    \/ ClearMetrics
    \/ \E r \in Requests :
        \/ Arrive(r, FALSE)
        \/ GlobalMiddlewareRun(r)
        \/ Invoke(r, FALSE)
        \/ \E i \in req[r].running, b \in {"respond", "throw"}, d \in Durations :
                Settle(r, i, b, PlainError, d)

SpecMetrics == InitMetrics /\ [][NextMetrics]_vars

\* SpecStatus: the default responder answers one error
StatusInputs ==
    [ text       : {"Invalid email address", "User not found"},
      statusCode : {<< >>, Num(400), Num(503), Str(400)},
      status     : {<< >>, Num(404), Str(404)},
      category   : Categories ]

InitStatus ==
    /\ nodeEnv = "development"
    /\ InitReg(Constructed)
    /\ InitRequests
    /\ pureIn \in StatusInputs
    /\ pureOut = << >>
    /\ call = NoCall

NextStatus == Respond

SpecStatus == InitStatus /\ [][NextStatus]_vars

\* app.use(asyncSuper.global({contextFactory: f, performance: true}));
\* app.get('/x', asyncSuper.wrap(async h))
SetupFactory(f) ==
    LET G1 == AsyncSuperGlobal(Constructed, ("contextFactory" :> f) @@ ("performance" :> TRUE))
        G2 == AppCall(G1, "app", "use", << GlobalFn >>)
    IN  AppCall(G2, "app", "get", ManualWrap(G2, << Path, Fn(3, TRUE) >>))

\* app.use(asyncSuper.global()); app.get('/x', asyncSuper.wrap(async h));
\* Object.preventExtensions(app)
SetupSealed == [SetupGlobal EXCEPT !.apps["app"].extensible = FALSE]

\* app.use(requestContextMiddleware()); app.use(asyncSuper.global());
\* app.get('/x', asyncSuper.wrap(async h))
SetupContextFirst ==
    LET G1 == AsyncSuperGlobal(Constructed, NoConfig)
        G2 == AppCall(G1, "app", "use", << RequestContextFn >>)
        G3 == AppCall(G2, "app", "use", << GlobalFn >>)
    IN  AppCall(G3, "app", "get", ManualWrap(G3, << Path, Fn(3, TRUE) >>))

\* app.use(asyncSuper.global()); app.use(requestContextMiddleware());
\* app.get('/x', asyncSuper.wrap(async h))
SetupContextLast ==
    LET G1 == AsyncSuperGlobal(Constructed, NoConfig)
        G2 == AppCall(G1, "app", "use", << GlobalFn >>)
        G3 == AppCall(G2, "app", "use", << RequestContextFn >>)
    IN  AppCall(G3, "app", "get", ManualWrap(G3, << Path, Fn(3, TRUE) >>))

\* SpecMiddleware: one request passes the context middlewares and its handler, while
\* the application code asks for contexts of it
InitMiddleware ==
    InitSetup({SetupFactory("factory"), SetupFactory("factory-throws"), SetupSealed,
               SetupContextFirst, SetupContextLast})

NextMiddleware ==
    \/ \E h \in BOOLEAN : Arrive(1, h)
    \/ GlobalMiddlewareRun(1)
    \/ RequestContextMiddlewareRun(1)
    \/ CreateContext(1)
    \/ Invoke(1, FALSE)
    \/ \E i \in req[1].running, b \in {"respond", "throw"}, d \in Durations :
            Settle(1, i, b, PlainError, d)
    \/ FinalHandler(1)
    \/ Finish(1)

SpecMiddleware == InitMiddleware /\ [][NextMiddleware]_vars

\* SpecClassify: the classifier is called with one error
MessageKeywords ==
    {"connect", "timeout", "network", "fetch", "database", "sql", "connection",
     "validation", "invalid", "required", "unauthorized", "authentication", "login",
     "token", "forbidden", "permission", "access denied", "enoent", "eacces",
     "file system", "temporary"}

NameKeywords ==
    {"network", "sequelize", "mongo", "redis", "validation", "joi", "yup", "auth", "system"}

\* the keywords that occur in a message made of the words ws: 'connection' has
\* 'connect' in it
Occurring(ws) == ws \cup (IF "connection" \in ws THEN {"connect"} ELSE {})

\* no keyword, one keyword, two keywords of different groups, and the messages
\* 'Database connection failed', 'Validation failed: email is required',
\* 'Network timeout occurred', 'Connection timeout'
Messages ==
    { {} } \cup { Occurring({k}) : k \in MessageKeywords }
    \cup { {a, b} : a, b \in {"timeout", "sql", "invalid", "token", "forbidden", "enoent"} }
    \cup { Occurring({"database", "connection"}), {"validation", "required"},
           {"network", "timeout"}, Occurring({"connection", "timeout"}) }

Names == { {} } \cup { {k} : k \in NameKeywords }

\* no code, the codes the classifier knows, an OS code, a code that is no OS code
\* ('P2002'), and a numeric code (14, the status code of a gRPC error)
Codes ==
    { << >>, CodeStr("E", "CONNREFUSED"), CodeStr("E", "NOTFOUND"), CodeStr("E", "CONNRESET"),
      CodeStr("E", "TIMEDOUT"), CodeStr("E", "NOENT"), CodeStr("P", "2002"), Num(14) }

StatusCodes == { << >>, Num(401), Num(403), Num(503) }
Statuses == { << >>, Num(401), Num(500) }
Stacks == { {}, {"database"} }

ClassifyInputs ==
    { ClassifiedError(m, n, c, sc, st, sk) :
        m \in Messages, n \in Names, c \in Codes, sc \in StatusCodes, st \in Statuses,
        sk \in Stacks }

InitClassify ==
    /\ nodeEnv = "development"
    /\ InitReg(Constructed)
    /\ InitRequests
    /\ pureIn \in ClassifyInputs
    /\ pureOut = << >>
    /\ call = NoCall

NextClassify ==
    \/ Categorize
    \/ IsRetryable
    \/ WrapperCategorize

SpecClassify == InitClassify /\ [][NextClassify]_vars

\* SpecErrors: one request is served by a manually wrapped handler that throws one of
\* the errors of the repository's tests, recovery suggestions on or off, in
\* development and in production

\* an Error with this message (the classifier's keywords in it: msg), code and statusCode
ErrorOf(text, msg, code, sc) ==
    [ClassifiedError(msg, {}, code, sc, << >>, {}) EXCEPT !.text = text]

ErrorInputs ==
    { ErrorOf("Network timeout occurred", {"network", "timeout"}, CodeStr("E", "TIMEDOUT"), << >>),
      ErrorOf("Connection timeout", Occurring({"connection", "timeout"}),
              CodeStr("E", "TIMEDOUT"), << >>),
      ErrorOf("Validation failed: email is required", {"validation", "required"}, << >>, << >>),
      ErrorOf("Database connection failed", Occurring({"database", "connection"}),
              CodeStr("E", "CONNREFUSED"), << >>),
      ErrorOf("User not found", {}, << >>, << >>),
      ErrorOf("Forbidden", {"forbidden"}, << >>, << >>),
      ErrorOf("boom", {}, CodeStr("E", "CONNREFUSED"), << >>),
      ErrorOf("Service unavailable", {}, << >>, Num(503)) }

\* app.use(asyncSuper.global({recovery: b})); app.get('/x', asyncSuper.wrap(async h))
SetupRecovery(b) ==
    LET G1 == AsyncSuperGlobal(Constructed, ("recovery" :> b))
        G2 == AppCall(G1, "app", "use", << GlobalFn >>)
    IN  AppCall(G2, "app", "get", ManualWrap(G2, << Path, Fn(3, TRUE) >>))

InitErrors == InitSetupIn({"development", "production"}, {SetupRecovery(TRUE), SetupRecovery(FALSE)})

NextErrors ==
    \/ \E h \in BOOLEAN : Arrive(1, h)
    \/ GlobalMiddlewareRun(1)
    \/ Invoke(1, FALSE)
    \/ \E i \in req[1].running, b \in {"respond", "throw", "respondThrow"}, v \in ErrorInputs,
          d \in Durations :
            Settle(1, i, b, v, d)
    \/ FinalHandler(1)
    \/ Finish(1)

SpecErrors == InitErrors /\ [][NextErrors]_vars

\* SpecConfigure: asyncSuper.global() is called again and again with different
\* options, its middleware is mounted, and a request passes it
GlobalConfigInputs ==
    { NoConfig,
      ( "recovery" :> TRUE ),
      ( "maxErrorHistory" :> 1 ) @@ ( "performance" :> TRUE ),
      ( "methods" :> HTTP_METHODS ) @@ ( "developmentOnly" :> TRUE ) }

InitConfigure == Init

NextConfigure ==
    \/ \E c \in GlobalConfigInputs : GlobalWithin(c, 1 + 2 * MaxGlobalCalls)
    \/ UseGlobal("app")
    \/ Arrive(1, FALSE)
    \/ GlobalMiddlewareRun(1)

SpecConfigure == InitConfigure /\ [][NextConfigure]_vars

\* SpecPatch: an application is patched, unpatched and filled with handlers while
\* the module's route patcher is reset
InitPatch == Init

NextPatch ==
    \/ \E a \in Apps, optc \in OptConfigInputs : PatchExpressApp(a, optc)
    \/ \E a \in Apps : UnpatchExpressApp(a)
    \/ ResetGlobalRoutePatcher
    \/ \E a \in Apps, i \in RegInputs : Register(a, i[1], i[2])

SpecPatch == InitPatch /\ [][NextPatch]_vars

\* SpecTimeout: withTimeout is called once with an operation that is pending, fulfilled
\* or rejected at the call, and that settles at any time or never; the event loop runs
\* the reactions and the timers that are due
Settlements == { Fulfilled("result"), Rejected("failure") }

TimeoutInputs ==
    [ operation : {Pending} \cup Settlements,
      timeoutMs : 0 .. (MaxTime - 1),
      timeoutMessage : {"Operation timed out", "too slow"} ]

InitTimeout ==
    /\ nodeEnv = "development"
    /\ InitReg(Constructed)
    /\ InitRequests
    /\ pureIn \in TimeoutInputs
    /\ pureOut = << >>
    /\ call = NoCall

NextTimeout ==
    \/ WithTimeout
    \/ \E p \in Settlements : OperationSettles(p)
    \/ RunJob
    \/ TimerFires
    \/ Tick

SpecTimeout ==
    InitTimeout /\ [][NextTimeout]_vars
    /\ WF_vars(RunJob) /\ WF_vars(TimerFires) /\ WF_vars(Tick)

\* SpecRetry: retryWithBackoff is called once; each call of the operation succeeds or
\* fails (maxRetries is a number of retries: 0 and up)
RetryInputs ==
    [ maxRetries : 0 .. MaxRetries,
      baseDelay : {0, 10},
      backoffFactor : {1, 2},
      jitter : BOOLEAN ]

InitRetry ==
    /\ nodeEnv = "development"
    /\ InitReg(Constructed)
    /\ InitRequests
    /\ pureIn \in RetryInputs
    /\ pureOut = << >>
    /\ call = NoCall

NextRetry ==
    \/ RetryWithBackoff
    \/ CallOperation
    \/ \E ok \in BOOLEAN, f \in JitterFactors : OperationResult(ok, f)
    \/ Wake

SpecRetry == InitRetry /\ [][NextRetry]_vars

----------------------------------------------------------------------------
(* Properties.                                                              *)

\* the layers of the application that serves request r
Stack(r) == apps[req[r].app].stack

\* f is what the Handler Wrapper returned for a route handler
RouteWrapped(f) == f.shells # << >> /\ Head(f.shells).type = "route"

\* the wrappers of kind t around a function
RECURSIVE CountShells(_, _)
CountShells(shells, t) ==
    IF shells = << >> THEN 0
    ELSE (IF Head(shells).type = t THEN 1 ELSE 0) + CountShells(Tail(shells), t)

\* the wrappers a patched registration method put around a function
RECURSIVE CountMarked(_)
CountMarked(shells) ==
    IF shells = << >> THEN 0
    ELSE (IF Head(shells).marked THEN 1 ELSE 0) + CountMarked(Tail(shells))

\* application a is patched by the patcher patchExpressApp uses
PatchedNow(a) ==
    globalRoutePatcher # 0 /\ isPatched(RegState, globalRoutePatcher, a)

\* C1: a failure of a wrapped route handler never leaves the wrapper as a rejection
\* of the wrapper's own promise, and a body the default responder wrote carries the
\* correlation id of the request's context, which is req.correlationId when that is set
C1_FailureNeverEscapes ==
    \A r \in Requests :
        /\ \A j \in req[r].rejected : ~RouteWrapped(Stack(r)[j].fn)
        /\ \A k \in DOMAIN req[r].log :
              req[r].log[k].by = "wrapper" =>
                 /\ req[r].asyncContext # << >>
                 /\ req[r].log[k].body.correlationId = req[r].asyncContext[1].correlationId
                 /\ req[r].correlationId # << >> =>
                        req[r].log[k].body.correlationId = req[r].correlationId[1]

\* C2: on an application that has the global middleware installed (active in this
\* environment, patching enabled, unpatch never called), every route handler that
\* app.get registered after it is wrapped by the Handler Wrapper, whether or not a
\* request has been processed
C2_WrappedAtRegistration ==
    \A a \in Apps :
        \A i \in DOMAIN apps[a].stack, j \in DOMAIN apps[a].stack :
            ( /\ i < j
              /\ apps[a].stack[i].fn.name = "global"
              /\ globalMiddleware[1].config["autoPatch"]
              /\ ~(globalMiddleware[1].config["developmentOnly"] /\ nodeEnv = "production")
              /\ ~patchCalls[a].unpatched
              /\ apps[a].stack[j].via = "get"
              /\ apps[a].stack[j].fn.arity = 3 )
            => RouteWrapped(apps[a].stack[j].fn)

\* the errorHistory of request r: empty while it has no context
History(r) == IF req[r].asyncContext = << >> THEN << >> ELSE req[r].asyncContext[1].errorHistory

\* C3: after a push the errorHistory of a context is no longer than the
\* maxErrorHistory the pushing wrapper is configured with, whichever wrapper pushed
\* and whatever configuration updates came before
C3_HistoryBounded ==
    \A r \in Requests :
        (req[r].asyncContext # << >> /\ req[r].asyncContext[1].lastLimit # << >>)
        => Len(History(r)) <= req[r].asyncContext[1].lastLimit[1]

\* the route-handler wrappers of request r that have started and not settled
RECURSIVE RunningWrappers(_, _)
RunningWrappers(r, j) ==
    IF j = 0 THEN 0
    ELSE (IF \E i \in req[r].running : i.layer = j
          THEN CountShells(Stack(r)[j].fn.shells, "route") ELSE 0)
         + RunningWrappers(r, j - 1)

\* C4: activeOperations is never negative and counts the wrapped handlers that have
\* started for the request and not settled: 0 once all of them have settled
C4_ActiveOperationsBalanced ==
    \A r \in Requests :
        (req[r].open /\ req[r].asyncContext # << >>) =>
            /\ req[r].asyncContext[1].activeOperations >= 0
            /\ req[r].asyncContext[1].activeOperations = RunningWrappers(r, Len(Stack(r)))

\* request r, its context aside
Apart(rq) == [rq EXCEPT !.asyncContext = << >>]

\* C5: a step taken for one request leaves the context of every other request as it
\* was, and an errorHistory holds only errors raised while serving its own request
C5_ContextIsolation ==
    /\ [][\A q \in Requests, r \in Requests :
            (q # r /\ Apart(req[q])' # Apart(req[q]))
            => req[r].asyncContext' = req[r].asyncContext]_vars
    /\ [](\A r \in Requests : \A k \in DOMAIN History(r) : History(r)[k].r = r)

\* C5 happens: two requests are in flight, one with a failure in its history, the
\* other with a wrapped handler running and an empty history
C5_Witness ==
    \E q \in Requests, r \in Requests :
        /\ q # r
        /\ Len(History(q)) = 1
        /\ ~req[q].finished
        /\ req[r].asyncContext # << >>
        /\ req[r].asyncContext[1].activeOperations = 1
        /\ History(r) = << >>
        /\ req[r].running # {}

\* C6: a patch call on an application that is patched leaves the application as it
\* is (registration methods, saved originals, marker), and no handler is ever
\* wrapped twice by a patched registration method
C6_SecondPatchChangesNothing ==
    /\ [][\A a \in Apps :
            patchCalls[a].repeated' > patchCalls[a].repeated => apps[a]' = apps[a]]_vars
    /\ [](\A a \in Apps : \A j \in DOMAIN apps[a].stack :
            CountMarked(apps[a].stack[j].fn.shells) <= 1)

\* C6 happens: patch was called twice in a row, the second call with a configuration,
\* and a handler registered after it is wrapped once, by the wrapper that second call made
C6_Witness ==
    /\ globalMiddleware = << >>
    /\ patchCalls["app"] = [calls |-> 2, repeated |-> 1, unpatched |-> FALSE]
    /\ Len(wrappers) = 3
    /\ \E j \in DOMAIN apps["app"].stack :
          /\ CountMarked(apps["app"].stack[j].fn.shells) = 1
          /\ Head(apps["app"].stack[j].fn.shells).w = 3

\* application a is as it was before patch
Restored(a) ==
    /\ apps[a].methods = NewApp.methods
    /\ ~isAppPatched(RegState, a)
    /\ ~PatchedNow(a)

\* what Express gets when the call i is made on an application that is not patched
Unwrapped(a, i) == ExpressRegister(apps[a].stack, i[1], i[2])

\* C7: unpatch leaves every registration method the function it was before patch
\* and clears the marker (isPatched, isAppPatched), and a handler registered on the
\* restored application reaches Express as it was passed
C7_UnpatchRestores ==
    /\ [][\A a \in Apps : UnpatchExpressApp(a) => Restored(a)']_vars
    /\ [][\A a \in Apps, i \in RegInputs :
            (patchCalls[a].unpatched /\ ~PatchedNow(a) /\ Register(a, i[1], i[2]))
            => apps[a].stack' = Unwrapped(a, i)]_vars

\* C7 happens: a handler registered while the application was patched is wrapped,
\* unpatch was called, and a handler registered after it is not wrapped
C7_Witness ==
    /\ patchCalls["app"].unpatched
    /\ Restored("app")
    /\ Len(apps["app"].stack) = 2
    /\ apps["app"].stack[1].via = "get"
    /\ CountMarked(apps["app"].stack[1].fn.shells) = 1
    /\ apps["app"].stack[2].via = "get"
    /\ apps["app"].stack[2].fn.shells = << >>

\* application a is patched under the default configuration
DefaultPatched(a) ==
    /\ PatchedNow(a)
    /\ patchers[globalRoutePatcher].config = GlobalConfig(NoConfig)

\* the function a replacement passes on for the function f
Substituted(f, g) ==
    IF f.arity = 4
    THEN g.shells # << >> /\ Head(g.shells).type = "error"
    ELSE g.shells # << >> /\ Head(g.shells).type = "route"

\* C8: under the default configuration patch replaces every verb registration
\* function (all among them) and use, and a call of a replacement passes on each
\* function with four parameters inside its error-handler wrapper and any other
\* function inside its handler wrapper, in the same position
C8_EveryMethodReplaced ==
    /\ [](\A a \in Apps : DefaultPatched(a) => \A m \in MethodNames : apps[a].methods[m] # << >>)
    /\ [][\A a \in Apps, i \in RegInputs :
            (DefaultPatched(a) /\ Register(a, i[1], i[2])) =>
                \A k \in Len(apps[a].stack) + 1 .. Len(apps[a].stack') :
                    /\ apps[a].stack'[k].fn.shells # << >>
                    /\ Substituted(i[2][apps[a].stack'[k].argIndex], apps[a].stack'[k].fn)]_vars

\* the status the table of the default responder gives the error of pureIn
TableStatus ==
    IF pureIn.statusCode # << >> /\ pureIn.statusCode[1].t = "number" THEN pureIn.statusCode[1].n
    ELSE IF pureIn.status # << >> /\ pureIn.status[1].t = "number" THEN pureIn.status[1].n
    ELSE IF pureIn.category = "validation" THEN 400
    ELSE IF pureIn.category = "authentication" THEN 401
    ELSE IF pureIn.category = "authorization" THEN 403
    ELSE 500

DefaultResponder(r, i) ==
    LET f == Stack(r)[i.layer].fn
    IN  /\ Len(f.shells) = 1
        /\ Head(f.shells).type = "route"
        /\ wrappers[Head(f.shells).w].config.errorHandler = "default"

\* C10: when a handler fails with the response already sent, the default responder
\* writes nothing and calls next(error) once; no write of the wrapper ever follows
\* another write
C10_NoSecondResponse ==
    /\ [][\A r \in Requests : \A i \in req[r].running : \A v \in ThrowInputs :
          \A b \in {"throw", "respondThrow"}, d \in Durations :
            ( /\ Settle(r, i, b, v, d)
              /\ headersSent(req[r]) \/ b = "respondThrow"
              /\ HasNameAndMessage(RawError(v, r))
              /\ DefaultResponder(r, i) )
            => /\ req[r].log' = IF b = "throw" THEN req[r].log
                                 ELSE Append(req[r].log, [by |-> "handler", status |-> 200, body |-> OkBody])
               /\ Len(req[r].nexts') = Len(req[r].nexts) + 1
               /\ req[r].nexts'[Len(req[r].nexts')].err # << >>
               /\ req[r].nexts'[Len(req[r].nexts')].err[1].v = v]_vars
    /\ [](\A r \in Requests : \A k \in DOMAIN req[r].log :
            req[r].log[k].by = "wrapper" => k = 1)

\* C10 happens: a response was sent, then a wrapped handler failed, and the
\* wrapper passed the error to next instead of writing
C10_Witness ==
    \E k \in DOMAIN req[1].nexts :
        /\ Len(req[1].log) = 1
        /\ req[1].log[1].by # "wrapper"
        /\ req[1].nexts[k].err # << >>
        /\ req[1].nexts[k].err[1].enhanced
        /\ req[1].nexts[k].from > 1
        /\ RouteWrapped(Stack(1)[req[1].nexts[k].from - 1].fn)
        /\ wrappers[Head(Stack(1)[req[1].nexts[k].from - 1].fn.shells).w].config.errorHandler = "default"

\* the handler of invocation i is wrapped once, by a wrapper whose user-supplied error
\* handler throws
ThrowingHandler(r, i) ==
    LET f == Stack(r)[i.layer].fn
    IN  /\ Len(f.shells) = 1
        /\ Head(f.shells).type = "route"
        /\ wrappers[Head(f.shells).w].config.errorHandler \in {"custom-throws", "custom-throws-null"}

\* the entry the default responder writes for the enhanced error e
EnvelopeFor(e) ==
    [ by |-> "wrapper",
      status |-> getStatusCodeFromError(e.v.statusCode, e.v.status, e.category),
      body |-> createErrorResponse(e) ]

\* C11: when the user-supplied error handler throws (or rejects) while handling the
\* failure of a wrapped handler, the wrapper's promise does not reject, the secondary
\* failure is logged, and the default responder answers the request with the JSON
\* envelope of the original enhanced error
C11_HandlerFailureFallsBack ==
    [][\A r \in Requests : \A i \in req[r].running : \A d \in Durations :
        ( /\ ThrowingHandler(r, i)
          /\ ~headersSent(req[r])
          /\ Settle(r, i, "throw", PlainError, d) )
        => /\ i.layer \notin req[r].rejected'
           /\ req[r].logged' # << >>
           /\ req[r].logged'[Len(req[r].logged')] = "Error handler failed"
           /\ History(r)' # << >>
           /\ req[r].log' = << EnvelopeFor(History(r)'[Len(History(r)')]) >>]_vars

\* the function of layer j of the application serving request r is what
\* wrapErrorHandler returned for a user's error handler
ErrorWrapped(r, j) ==
    LET f == Stack(r)[j].fn
    IN  Len(f.shells) = 1 /\ Head(f.shells).type = "error"

\* the context of request r
Context(r) == req[r].asyncContext[1]

\* C12: a wrapped error handler called with an error first appends that error,
\* enhanced and carrying the context's correlation id, to the errorHistory, which
\* stays within the maxErrorHistory of its wrapper, and then runs the original
\* handler; when the original handler throws or rejects, the wrapped handler calls
\* next exactly once, with the enhanced secondary failure, and its own promise does
\* not reject
C12_ErrorHandlerWrapped ==
    /\ [][\A r \in Requests :
            ( /\ \E callsNext \in BOOLEAN : Invoke(r, callsNext)
              /\ ErrorWrapped(r, NextLayer(r))
              /\ Head(req[r].nexts).err # << >> )
            => LET j == NextLayer(r)
                   e == Head(req[r].nexts).err[1]
                   w == wrappers[Head(Stack(r)[j].fn.shells).w]
               IN  /\ History(r)' # << >>
                   /\ History(r)'[Len(History(r)')].v = e.v
                   /\ History(r)'[Len(History(r)')].enhanced
                   /\ History(r)'[Len(History(r)')].correlationId = Context(r)'.correlationId
                   /\ Len(History(r)') <= w.config.maxErrorHistory
                   /\ \E i \in req[r].running' : i.layer = j]_vars
    /\ [][\A r \in Requests : \A i \in req[r].running :
          \A v \in ThrowInputs, d \in Durations :
            ( /\ ErrorWrapped(r, i.layer)
              /\ Settle(r, i, "throw", v, d) )
            => /\ i.layer \notin req[r].rejected'
               /\ Len(req[r].nexts') = Len(req[r].nexts) + 1
               /\ req[r].nexts'[Len(req[r].nexts')].err # << >>
               /\ req[r].nexts'[Len(req[r].nexts')].err[1].enhanced
               /\ req[r].nexts'[Len(req[r].nexts')].err[1].v = v]_vars

\* the function of layer j of the application serving request r is a route handler
\* inside one handler wrapper whose performance monitoring is enabled
Monitored(r, j) ==
    LET f == Stack(r)[j].fn
    IN  /\ Len(f.shells) = 1
        /\ Head(f.shells).type = "route"
        /\ wrappers[Head(f.shells).w].config.performance

\* the wrapper around the function of layer j
WrapperOf(r, j) == Head(Stack(r)[j].fn.shells).w

\* the step adds to the store of wrapper w exactly one sample, finalized with
\* duration d, under the key "METHOD path" of request r
OneSampleAdded(r, w, d) ==
    LET key    == RouteKey(req[r].method, req[r].path)
        before == getPerformanceMetrics(wrappers[w], << key >>)
        after  == getPerformanceMetrics(wrappers[w]', << key >>)
    IN  /\ Len(after) = Len(before) + 1
        /\ SubSeq(after, 1, Len(before)) = before
        /\ after[Len(after)].finished
        /\ after[Len(after)].req = r
        /\ after[Len(after)].route = req[r].path
        /\ after[Len(after)].method = req[r].method
        /\ after[Len(after)].duration = d
        /\ after[Len(after)].isSlowOperation = (d > wrappers[w].config.performanceThreshold)
        /\ Len(getPerformanceMetrics(wrappers[w]', << >>))
              = Len(getPerformanceMetrics(wrappers[w], << >>)) + 1

\* C13: with performance monitoring enabled, the exit of a wrapped handler, whether
\* the handler resolved or failed, adds exactly one finalized sample (endTime,
\* duration, memoryAfter, isSlowOperation = duration > performanceThreshold) to the
\* Metrics Store under the key "METHOD path"
C13_OneSamplePerInvocation ==
    [][\A r \in Requests : \A i \in req[r].running :
       \A b \in {"respond", "throw"}, d \in Durations :
        ( /\ Monitored(r, i.layer)
          /\ Settle(r, i, b, PlainError, d) )
        => OneSampleAdded(r, WrapperOf(r, i.layer), d)]_vars

\* what asyncSuper.getMetrics() returns
AllMetrics == AsyncSuperGetMetrics(RegState, << >>)

\* C14: clearMetrics() drops every stored sample, so that getMetrics() is empty until
\* the next sample is finished, and a sample whose handler was in flight during the
\* clear is still recorded, exactly once, when that handler finishes
C14_ClearSparesInFlight ==
    /\ [][ClearMetrics => AllMetrics' = << >>]_vars
    /\ [][(AllMetrics = << >> /\ AllMetrics' # << >>)
            => (Len(AllMetrics') = 1 /\ AllMetrics'[1].finished)]_vars
    /\ [][\A r \in Requests : \A i \in req[r].running :
           \A b \in {"respond", "throw"}, d \in Durations :
            ( /\ Monitored(r, i.layer)
              /\ wrappers[WrapperOf(r, i.layer)].clears > i.samples[1][1].clearsAtStart
              /\ Settle(r, i, b, PlainError, d) )
            => OneSampleAdded(r, WrapperOf(r, i.layer), d)]_vars

\* request r was answered by its handler and nothing of it is pending
Completed(r) ==
    /\ req[r].open
    /\ req[r].running = {}
    /\ req[r].nexts = << >>
    /\ req[r].rejected = {}
    /\ Len(req[r].log) = 1
    /\ req[r].log[1].by = "handler"

\* the application serving request r uses asyncSuper.global({performance: true})
UsesGlobalWithPerformance(r) ==
    /\ currentConfig # << >>
    /\ Get(currentConfig[1], "performance", FALSE)
    /\ \E j \in DOMAIN Stack(r) : Stack(r)[j].fn.name = "global"

\* C15: after a request to a route of an application that uses
\* asyncSuper.global({performance: true}) has completed successfully, and before any
\* clearMetrics(), asyncSuper.getMetrics() holds that request's sample; no sample is
\* stored where getMetrics and clearMetrics of the asyncSuper instance do not reach it
C15_SamplesReachGetMetrics ==
    /\ \A r \in Requests :
          ( /\ Completed(r)
            /\ UsesGlobalWithPerformance(r)
            /\ wrappers[implWrapper].clears = 0 )
          => \E k \in DOMAIN AllMetrics : AllMetrics[k].req = r /\ AllMetrics[k].finished
    /\ \A w \in DOMAIN wrappers :
          w # implWrapper => getPerformanceMetrics(wrappers[w], << >>) = << >>

\* the samples of s that were recorded for route p, in their order
RECURSIVE ForRoute(_, _)
ForRoute(s, p) ==
    IF s = << >> THEN << >>
    ELSE (IF Head(s).route = p THEN << Head(s) >> ELSE << >>) \o ForRoute(Tail(s), p)

\* C16: getMetrics(route) returns exactly the samples recorded for requests to that
\* route, in recording order, and none of another route: getMetrics('/slow') holds
\* the sample of a successful GET /slow; getMetrics() returns the samples of all
\* routes
C16_MetricsByRoute ==
    \A a \in Apps : \A p \in RequestPaths(a) :
        /\ AsyncSuperGetMetrics(RegState, << << p >> >>) = ForRoute(AllMetrics, p)
        /\ \A k \in DOMAIN AllMetrics : AllMetrics[k].route \in RequestPaths(a)

----------------------------------------------------------------------------
(* The classifier.                                                          *)

\* the call made on the error of pureIn, if it was a call of fn
Called(fn) == pureOut # << >> /\ pureOut[1].fn = fn

\* the categories of the indicator groups, in the order they are tested in
GroupOrder ==
    << "network", "database", "validation", "authentication", "authorization", "system" >>

\* the code of v is a string that starts with 'E'
HasOSCode(v) == v.code # << >> /\ v.code[1].t = "string" /\ v.code[1].first = "E"

\* v matches the g-th indicator group
MatchesGroup(g, v) ==
    CASE g = 1 -> NetworkIndicators(v)
      [] g = 2 -> DatabaseIndicators(v)
      [] g = 3 -> ValidationIndicators(v)
      [] g = 4 -> AuthenticationIndicators(v)
      [] g = 5 -> AuthorizationIndicators(v)
      [] g = 6 -> SystemIndicators(v) \/ HasOSCode(v)

FirstGroup(v) ==
    LET m == {g \in DOMAIN GroupOrder : MatchesGroup(g, v)}
    IN  IF m = {} THEN "unknown"
        ELSE GroupOrder[CHOOSE g \in m : \A h \in m : g <= h]

\* C17: categorizeError tests the indicator groups in the order network, database,
\* validation, authentication, authorization, system and returns the category of the
\* first group that matches; an error that matches no group yields UNKNOWN, and the
\* result is never BUSINESS_LOGIC
C17_FirstMatchingGroup ==
    Called("categorizeError") =>
        /\ pureOut[1].out = Returns(FirstGroup(pureIn))
        /\ pureOut[1].out # Returns("business_logic")

\* the errors that have the message, the name and the code of v
SameMessageNameCode(v) ==
    { [v EXCEPT !.statusCode = sc, !.status = st, !.stack = sk] :
        sc \in StatusCodes, st \in Statuses, sk \in Stacks }

\* the errors that have the message, the name, the code, the statusCode and the
\* stack of v
SameAsRead(v) == { [v EXCEPT !.status = st] : st \in Statuses }

\* C18 (as stated): two errors with the same message, name and code receive the same
\* category, whatever else differs between them
C18_SameMessageNameCode ==
    /\ Called("categorizeError") =>
          \A e \in SameMessageNameCode(pureIn) : utilsCategorizeError(e) = pureOut[1].out
    /\ Called("AsyncWrapper.categorizeError") =>
          \A e \in SameMessageNameCode(pureIn) : Returns(categorizeError(e)) = pureOut[1].out

\* C18 (amended): the exported categorizeError is deterministic in message, name, code,
\* statusCode and stack: two errors that agree on these five receive the same category
\* (or both make the call raise), whatever else differs between them; the wrapper's
\* own classifier is deterministic in message and name alone
C18_DeterministicInWhatIsRead ==
    /\ Called("categorizeError") =>
          \A e \in SameAsRead(pureIn) : utilsCategorizeError(e) = pureOut[1].out
    /\ Called("AsyncWrapper.categorizeError") =>
          \A e \in SameMessageNameCode(pureIn) : Returns(categorizeError(e)) = pureOut[1].out

\* an error that agrees with another on what the classifier reads and differs from it
\* in its status was categorized, and got a category
C18_Witness ==
    /\ Called("categorizeError")
    /\ pureOut[1].out.result = "return"
    /\ pureIn.status = Num(401)
    /\ pureIn.statusCode = << >>
    /\ pureOut[1].out.value = "unknown"

\* the message or the code of v suggests a transient condition
Transient(v) ==
    \/ v.msg \cap {"timeout", "connection", "temporary"} # {}
    \/ v.code \in {CodeStr("E", "CONNRESET"), CodeStr("E", "TIMEDOUT")}

\* v carries an HTTP status of at least 500
HasServerErrorStatus(v) ==
    \E s \in {v.statusCode, v.status} : s # << >> /\ s[1].n >= 500

\* C19: isRetryableError returns true for every NETWORK error; for a DATABASE error
\* it returns true only if the message suggests a transient condition or the code is
\* a known transient code; it returns false for every SYSTEM, VALIDATION,
\* AUTHENTICATION or AUTHORIZATION error; for any other error it returns true exactly
\* when the error carries an HTTP status of at least 500
C19_RetryableByCategory ==
    Called("isRetryableError") =>
        LET out == pureOut[1].out
            c == utilsCategorizeError(pureIn)
            category == IF c.result = "return" THEN c.value ELSE "unknown"
        IN  /\ out.result = "return"
            /\ category = "network" => out.value
            /\ category = "database" => (out.value => Transient(pureIn))
            /\ category \in {"system", "validation", "authentication", "authorization"}
                  => ~out.value
            /\ category \notin {"network", "database", "system", "validation",
                                "authentication", "authorization"}
                  => (out.value <=> HasServerErrorStatus(pureIn))

----------------------------------------------------------------------------
(* The body of the default responder.                                       *)

\* the bodies the default responder wrote to the response of request r
DefaultBodies(r) ==
    { req[r].log[k].body : k \in {j \in DOMAIN req[r].log : req[r].log[j].by = "wrapper"} }

\* C20: the body of the default responder always has error.message,
\* error.correlationId, error.timestamp and error.category; error.details (route,
\* method, duration, suggestions, retryable) and error.stack are present only when the
\* environment is not production, so that in production no stack and no suggestions
\* reach the client
C20_DetailsOnlyOutsideProduction ==
    \A r \in Requests : \A b \in DefaultBodies(r) :
        /\ b.message # ""
        /\ b.correlationId # << >>
        /\ b.timestamp # << >>
        /\ b.category \in Categories
        /\ b.details # << >> <=> nodeEnv # "production"
        /\ b.stack # << >> => nodeEnv # "production"
        /\ b.details # << >> =>
              DOMAIN b.details[1] = {"route", "method", "duration", "suggestions", "retryable"}

\* C20 happens: in production the default responder answered a failed handler, with
\* neither details nor stack in the body
C20_Witness ==
    /\ nodeEnv = "production"
    /\ \E b \in DefaultBodies(1) :
          b.message = PlainError.text /\ b.details = << >> /\ b.stack = << >>

----------------------------------------------------------------------------
(* The global middleware and the creation of contexts.                      *)

\* C21: for every request the global middleware calls next() exactly once and with no
\* error argument, also when context creation (a throwing contextFactory included),
\* patching or performance setup fails: the failure is logged and swallowed and the
\* request goes on to the next layer
C21_NextOnceWithoutError ==
    [][\A r \in Requests :
        GlobalMiddlewareRun(r) =>
            /\ req[r].nexts' = Append(Tail(req[r].nexts),
                                      [from |-> NextLayer(r) + 1, err |-> << >>])
            /\ ( /\ initializeRequestContextThrows(globalMiddleware[1].config, Load(r))
                 /\ ~(globalMiddleware[1].config["developmentOnly"] /\ nodeEnv = "production") )
               => /\ req[r].logged' # << >>
                  /\ req[r].logged'[Len(req[r].logged')] =
                        "Failed to initialize async-super middleware"]_vars

\* request r carries a context
CarriesContext(r) == Load(r).asyncContext # << >>

\* C22: creating a context for a request that already carries one returns the carried
\* context unchanged (same correlationId, activeOperations and errorHistory): for the
\* Handler Wrapper, the global middleware and requestContextMiddleware, in any order,
\* and for createContext
C22_ContextCreationIdempotent ==
    /\ [](\A r \in Requests : CarriesContext(r) =>
            /\ \A w \in DOMAIN wrappers :
                  getOrCreateContext(wrappers[w].config, Load(r), r) = Load(r)
            /\ globalMiddleware # << >> =>
                  initializeRequestContext(globalMiddleware[1].config, Load(r), r) = Load(r)
            /\ requestContextMiddleware(Load(r), r) = Load(r))
    /\ [][\A r \in Requests :
            (CarriesContext(r) /\ (GlobalMiddlewareRun(r) \/ RequestContextMiddlewareRun(r)))
            => req[r].asyncContext' = req[r].asyncContext]_vars
    /\ [][\A r \in Requests :
            (CarriesContext(r) /\ CreateContext(r))
            => pureOut'[1] = Load(r).asyncContext[1]]_vars

----------------------------------------------------------------------------
(* Handlers that are not async.                                             *)

\* the function of layer j of the application serving request r is not async and was
\* registered through a patched registration method
SyncThroughPatch(r, j) ==
    LET f == Stack(r)[j].fn
    IN  /\ ~f.async
        /\ \E k \in DOMAIN f.shells : f.shells[k].type = "safe"

\* C26: a handler that is not syntactically async, registered through a patched
\* registration method, is handled like an async one when it fails: the Handler
\* Wrapper's failure path runs (the error is enriched, pushed onto the context's
\* errorHistory and given to the configured error handler or default responder) and
\* activeOperations is decremented
C26_SyncFailureTakesFailurePath ==
    [][\A r \in Requests : \A i \in req[r].running : \A d \in Durations :
        ( /\ SyncThroughPatch(r, i.layer)
          /\ req[r].log = << >>
          /\ Settle(r, i, "throw", PlainError, d) )
        => /\ Len(History(r)') = Len(History(r)) + 1
           /\ History(r)'[Len(History(r)')].v = PlainError
           /\ History(r)'[Len(History(r)')].enhanced
           /\ Context(r).activeOperations' = Context(r).activeOperations - 1
           /\ Len(req[r].log') = 1
           /\ req[r].log'[1] = EnvelopeFor(History(r)'[Len(History(r)')])]_vars

----------------------------------------------------------------------------
(* What the client reads in the default responder's body.                   *)

\* body.error[k] as a client reads it: undefined (<< >>) for a member the body has not
BodyMember(b, k) == IF k \in DOMAIN b THEN b[k] ELSE << >>

\* the handler of invocation i is wrapped once, by a wrapper that answers failures with
\* the default responder
WrappedWithDefault(r, i) ==
    LET f == Stack(r)[i.layer].fn
    IN  /\ Len(f.shells) = 1
        /\ Head(f.shells).type = "route"
        /\ wrappers[Head(f.shells).w].config.errorHandler = "default"

\* a step in which the handler of request r throws v and nothing was sent before
ThrowsUnanswered(r, v) ==
    \E i \in req[r].running : \E d \in Durations :
        /\ WrappedWithDefault(r, i)
        /\ req[r].log = << >>
        /\ Settle(r, i, "throw", v, d)

\* C23: with recovery enabled, a handler that throws an error whose message contains
\* 'timeout' and whose code is ETIMEDOUT produces a response whose error object has
\* category 'network', retryable true and a non-empty suggestions array, read as
\* error.retryable and error.suggestions
C23_TimeoutIsRetryableWithSuggestions ==
    [][\A r \in Requests : \A v \in ErrorInputs :
        ( /\ "timeout" \in v.msg
          /\ v.code = CodeStr("E", "TIMEDOUT")
          /\ \A i \in req[r].running : wrappers[WrapperOf(r, i.layer)].config.recovery
          /\ ThrowsUnanswered(r, v) )
        => /\ Len(req[r].log') = 1
           /\ LET error == req[r].log'[1].body
              IN  /\ BodyMember(error, "category") = "network"
                  /\ BodyMember(error, "retryable") = << TRUE >>
                  /\ BodyMember(error, "suggestions") # << >>
                  /\ BodyMember(error, "suggestions")[1] # << >>]_vars

\* C24: for a handler error that carries no statusCode and no status the client
\* receives status 500 and the body reports the category, also when the error is
\* categorized as validation
C24_NoStatusGives500 ==
    [][\A r \in Requests : \A v \in ErrorInputs :
        ( /\ v.statusCode = << >>
          /\ v.status = << >>
          /\ ThrowsUnanswered(r, v) )
        => /\ Len(req[r].log') = 1
           /\ req[r].log'[1].status = 500
           /\ req[r].log'[1].body.category = categorizeError(v)]_vars

\* C27: the category and the retryable flag the Handler Wrapper attaches to the
\* enhanced error and reports in the response are categorizeError(error) and
\* isRetryableError(error) of the exported utilities
C27_WrapperUsesExportedClassifier ==
    [][\A r \in Requests : \A v \in ErrorInputs :
        ThrowsUnanswered(r, v)
        => /\ History(r)' # << >>
           /\ LET e == History(r)'[Len(History(r)')]
              IN  /\ Returns(e.category) = utilsCategorizeError(v)
                  /\ Returns(e.retryable[1]) = utilsIsRetryableError(v)
                  /\ Returns(req[r].log'[1].body.category) = utilsCategorizeError(v)]_vars

----------------------------------------------------------------------------
(* Repeated configuration.                                                  *)

\* only asyncSuper.global() has configured the package so far
OnlyGlobalCalls == \A a \in Apps : patchCalls[a].calls = 0

\* C28: after the calls global(c1), ..., global(cn) the configuration of the global
\* middleware, of the route patcher and of the wrapper that wraps handlers from then on
\* is the defaults overridden by cn only, which is what getConfig() returns: an option
\* an earlier call set and cn omits is back at its default
C28_LastConfigOnly ==
    (AsyncSuperGetConfig(RegState) # << >> /\ globalMiddleware # << >> /\ OnlyGlobalCalls) =>
        LET cn == AsyncSuperGetConfig(RegState)[1]
            gm == globalMiddleware[1]
        IN  /\ gm.config = GlobalConfig(cn)
            /\ patchers[gm.routePatcher].config = GlobalConfig(cn)
            /\ wrappers[patchers[gm.routePatcher].asyncWrapper].config = AsyncWrapperConfig(cn)
            /\ wrappers[implWrapper].config = AsyncWrapperConfig(cn)

----------------------------------------------------------------------------
(* Patching across resets of the module's patcher.                          *)

\* C29: for any interleaving of patchExpressApp(app), unpatchExpressApp(app) and
\* resetGlobalRoutePatcher(), each registration method of app is its original function
\* or that original wrapped exactly once, isAppPatched(app) is true exactly in the
\* second case and agrees with the current patcher's isPatched(app), and the saved
\* originals are never already patched functions
C29_PatchedAtMostOnce ==
    \A a \in Apps :
        /\ \A m \in MethodNames : Len(apps[a].methods[m]) <= 1
        /\ isAppPatched(RegState, a) <=> (\E m \in MethodNames : apps[a].methods[m] # << >>)
        /\ isAppPatched(RegState, a) <=> PatchedNow(a)
        /\ apps[a].originals # << >> =>
              \A m \in DOMAIN apps[a].originals[1] : apps[a].originals[1][m] = << >>

----------------------------------------------------------------------------
(* The asynchronous utilities.                                              *)

DelayAsClaimed(k) ==
    LET plain == call.baseDelay * Pow(call.backoffFactor, k - 1)
    IN  IF call.jitter THEN \E f \in 500 .. 999 : call.waits[k] = plain * f
        ELSE call.waits[k] = plain * 1000

\* C30: retryWithBackoff invokes operation at least once and at most maxRetries + 1
\* times, returns the value of the first successful attempt without invoking operation
\* again, waits baseDelay * backoffFactor^attempt (scaled by a jitter factor in [0.5, 1)
\* when jitter is on) between consecutive attempts and never after the last one, and
\* when every attempt fails rejects with the error of the last attempt
C30_RetryWithBackoff ==
    /\ [](call.fn = "retryWithBackoff" =>
            /\ call.invocations <= call.maxRetries + 1
            /\ \A k \in DOMAIN call.waits : DelayAsClaimed(k)
            /\ \A k \in DOMAIN call.outcomes :
                  k < Len(call.outcomes) => call.outcomes[k].state = "rejected"
            /\ call.result.state # "pending" =>
                  /\ call.invocations >= 1
                  /\ call.invocations = Len(call.outcomes)
                  /\ Len(call.waits) = call.invocations - 1
                  /\ call.result = call.outcomes[Len(call.outcomes)]
            /\ call.result.state = "rejected" => call.invocations = call.maxRetries + 1
            /\ (call.result.state = "pending" /\ call.at = "loop") =>
                  Len(call.waits) = call.invocations)
    /\ [][(call.fn = "retryWithBackoff" /\ call.result.state # "pending")
            => call' = call]_vars

\* C30 happens: with two retries, a base delay of 10 ms, factor 2 and jitter, the
\* operation failed three times, two delays were slept, and the third error is the
\* rejection
C30_Witness ==
    /\ call.fn = "retryWithBackoff"
    /\ call.maxRetries = 2 /\ call.baseDelay = 10 /\ call.backoffFactor = 2 /\ call.jitter
    /\ call.invocations = 3
    /\ Len(call.waits) = 2
    /\ call.waits[2] = 10 * 2 * 750
    /\ call.result = Rejected([error |-> 3])

====
